---- MODULE Spec2Model ----
(***************************************************************************)
(* Model of the p25rx trunking receiver core.                              *)
(*                                                                         *)
(*   - ReceiverPolicy (src/src/policy.rs): the Control / Traffic / Paused  *)
(*     state machine with its sample-counting timers.                      *)
(*   - TalkgroupSelection (src/src/talkgroups.rs): candidate collection,   *)
(*     filtering, scoring and selection.                                   *)
(*                                                                         *)
(*   - The sample pipeline (src/src/main.rs, src/src/demod.rs): the reader, *)
(*     demodulator and receiver tasks handing pooled buffers through       *)
(*     channels.                                                           *)
(*                                                                         *)
(*   - HubTask (src/src/hub.rs, src/src/http.rs): the HTTP routes, the      *)
(*     event-stream subscribers and the state snapshot.                    *)
(*   - The hub channel: events from the demodulator (src/src/demod.rs) and  *)
(*     the receiver, drained by HubTask::handle_chan.                      *)
(*   - The receiver's reactions to policy events, joining ReceiverPolicy   *)
(*     and TalkgroupSelection.                                             *)
(*                                                                         *)
(* Each component has its own specification over the one set of variables: *)
(* Spec drives the policy object with every call sequence, SpecSel drives  *)
(* the talkgroup selector with every call sequence, SpecScore drives the   *)
(* selector's scoring over longer waits, SpecPool interleaves the steps of *)
(* the pipeline tasks, SpecHub drives the hub with every request and       *)
(* event, SpecChan interleaves the senders on the hub channel with the     *)
(* hub draining it, SpecRecv drives the receiver's reactions.              *)
(***************************************************************************)
EXTENDS Integers, Sequences, FiniteSets, TLC

VARIABLES
    \* ---- ReceiverPolicy ----
    state,        \* ReceiverPolicy.state: [kind, timer: [max, cur], init]
    ret,          \* value returned by the last policy call (Option<PolicyEvent>)
    call,         \* the last policy call: [op, arg]
    pre,          \* history: [state, since] as they were before the last call
    since,        \* history: samples fed to handle_elapsed since the latest of:
                  \*   new(), enter_control(), enter_traffic(), a returned
                  \*   ChooseTalkgroup, a voice NID received in Traffic or Paused,
                  \*   the move from Traffic to Paused
    quiet,        \* history: only handle_elapsed calls since the last enter_traffic()
    fedSince,     \* history: samples fed to handle_elapsed since the latest of:
                  \*   new(), enter_control(), enter_traffic(), a returned
                  \*   event, a voice NID received in Traffic or Paused
    \* ---- TalkgroupSelection ----
    ts,           \* the TalkgroupSelection: [cur, cur_preempt, channels, encrypted,
                  \*   preempt, filter, feats: [elapsed, age, recent, prios, weights]]
    tsCall,       \* the last selector call: [op, tg, freq, alg, samples]
    tsRet,        \* value returned by the last selector call (Option<(u16, u32)>)
    tsPre,        \* history: the selector as it was before the last call when that
                  \*   call was select_idle or select_preempt (kept in SpecScore)
    \* ---- Sample pipeline ----
    task,         \* position of each task: reader (Radio::run), demod
                  \*   (DemodTask::run), receiver (Receiver::run)
    pool,         \* the two buffer pools: samples (reader), baseband (demod)
    sdr_chan,     \* Checkout<Vec<u8>> handles queued from the reader to the demod
    recv_chan,    \* Baseband(Checkout<Vec<f32>>) events queued to the receiver
    poolLog,      \* history, per pool: the last operation on it
    \* ---- HubTask ----
    hub,          \* the HubTask: [state: [ctlfreq, encrypted], streamers, alive]
    recv_open,    \* the receiving end of HubTask.recv (Sender<RecvEvent>) exists
    hubCall,      \* history: the last request or event the hub handled
    hubOut,       \* history: what handling it wrote: the response on the request's
                  \*   connection, the RecvEvents sent, the subscribers written to
    \* ---- Hub channel ----
    hub_chan,     \* HubEvents queued for the hub: [from, ev, n], oldest first
    notifier,     \* Throttler of DemodTask::run: calls since the last one let through
    chanHist,     \* history: blocks demodulated, Baseband events sent, the blocks
                  \*   at which signal power was sent, events sent and handled
    \* ---- Receiver reactions ----
    rx,           \* the receiver: [current_group, current_freq, ctlfreq]
    rxOut,        \* history: the last reaction: [event, selected, sent]
    \* ---- HubToken ----
    tok,          \* a poll token on its way: [width, ht, token, out]
    \* ---- ReplayReceiver ----
    rp            \* ReplayReceiver::replay: [stream, buf, fed, read, status]

polVars == <<state, ret, call, pre, since, quiet, fedSince>>

selVars == <<ts, tsCall, tsRet>>

pipeVars == <<task, pool, sdr_chan, recv_chan, poolLog>>

hubVars == <<hub, recv_open, hubCall, hubOut>>

chanVars == <<hub_chan, notifier, chanHist>>

rxVars == <<rx, rxOut>>

auxVars == <<tok, rp>>

vars == <<state, ret, call, pre, since, quiet, fedSince, ts, tsCall, tsRet, tsPre,
          task, pool, sdr_chan, recv_chan, poolLog,
          hub, recv_open, hubCall, hubOut, hub_chan, notifier, chanHist, rx, rxOut,
          tok, rp>>

----------------------------------------------------------------------------
(* Bounds of the model.                                                    *)

\* Largest block length passed to handle_elapsed in one call.
MaxSamples == 30

\* Cap on a timer's accumulated count (usize in the source; the guard of
\* handle_elapsed keeps cur within 0..MaxCur so the addition never wraps).
MaxCur == 64

\* Largest sample count passed to record_elapsed in one call.
MaxStep == 1

\* Cap on the selector's sample counter in SpecSel, where candidate ages only
\* need to differ (the guard there keeps elapsed within 0..MaxElapsed).
MaxElapsed == 1

\* The selector's sample counter is kept modulo CounterModulus (usize in the
\* source, 2^64 there): wrapping_add and wrapping_sub wrap at this value.
CounterModulus == 8

\* Cap on the selector's sample counter in SpecScore, where candidates wait
\* for different lengths of time (the guard there keeps elapsed within 0..MaxWait).
MaxWait == 3

\* Pool::with_capacity(16, ..) in Radio::run and DemodTask::run.
PoolCapacity == 16

\* sync_channel(64) between the reader and the demodulator.
SdrChanBound == 64

\* ArrayVec<[TcpStream; 4]>: the subscribers of HubTask.
StreamerCapacity == 4

\* Connections are numbered 1..MaxConns: the subscribers and the connection
\* being accepted.  A request arrives on the lowest number no subscriber holds.
MaxConns == StreamerCapacity + 1

\* std::u32::MAX, the control frequency of State::default(): 4294967295, held
\* here as the 32-bit pattern read as a signed integer, the widest the model
\* checker's integers go.  No frequency the model tunes to equals it.
U32Max == -1

\* Throttler::new(16): one call in sixteen is let through.
ThrottleRate == 16

\* Blocks the demodulator is given.
MaxBlocks == 33

\* HubEvents waiting in the hub channel at one time.
MaxQueue == 2

\* HubEvents the receiver sends.
MaxRecvSends == 3

\* Subscribers connected while the channel is watched.
MaxSubs == 2

----------------------------------------------------------------------------
(* ReceiverPolicy: timeouts as constructed in test_policy,                 *)
(* ReceiverPolicy::new(10, 20, 30).                                        *)

select_time == 10
watchdog_time == 20
pause_time == 30

\* p25::message::nid::DataUnit
DataUnits == {"VoiceHeader", "VoiceSimpleTerminator", "VoiceLCTerminator",
              "VoiceLCFrameGroup", "VoiceCCFrameGroup", "DataPacket",
              "TrunkingSignaling"}

VoiceUnits == {"VoiceHeader", "VoiceLCFrameGroup", "VoiceCCFrameGroup"}

TermUnits == {"VoiceLCTerminator", "VoiceSimpleTerminator"}

\* Option<PolicyEvent>
PolicyEvents == {"Resync", "ReturnControl", "ChooseTalkgroup"}

None == "None"

\* StateChange
Change(s) == [tag |-> "Change", state |-> s, event |-> None]

Event(e) == [tag |-> "Event", state |-> None, event |-> e]

NoChange == [tag |-> "NoChange", state |-> None, event |-> None]

\* Timer::new
TimerNew(max) == [max |-> max, cur |-> 0]

\* Mutant: the timeout is compared with > instead of >=.
TimerExpired_Strict(t, samples) ==
    LET cur == t.cur + samples
    IN  [timer |-> [t EXCEPT !.cur = cur], expired |-> cur > t.max]

\* Mutant: the samples are compared with the timeout but not added to the timer.
TimerExpired_NoAdvance(t, samples) == [timer |-> t, expired |-> t.cur + samples >= t.max]

\* Timer::expired: the timer after adding the samples, and whether it timed out.
TimerExpired(t, samples) ==
    LET cur == t.cur + samples
    IN  [timer |-> [t EXCEPT !.cur = cur], expired |-> cur >= t.max]

\* Timer::reset
TimerReset(t) == [t EXCEPT !.cur = 0]

\* ReceiverState variants. The flag `init` is Traffic's second field (true until
\* the first voice packet is seen); it is carried as FALSE by the other variants.
Control(t) == [kind |-> "Control", timer |-> t, init |-> FALSE]

Traffic(t, init) == [kind |-> "Traffic", timer |-> t, init |-> init]

Paused(t) == [kind |-> "Paused", timer |-> t, init |-> FALSE]

\* Mutant: the control state is entered with the watchdog's timer.
state_control_Watchdog == Control(TimerNew(watchdog_time))

\* ReceiverPolicy::state_control
state_control == Control(TimerNew(select_time))

\* Mutant: the traffic state is entered as if voice had been seen.
state_traffic_SeenVoice(init) == Traffic(TimerNew(watchdog_time), FALSE)

\* ReceiverPolicy::state_traffic
state_traffic(init) == Traffic(TimerNew(watchdog_time), init)

\* Mutant: the select timer is not reset when it expires.
ElapsedMatch_NoReset(s, samples) ==
    LET e == TimerExpired(s.timer, samples)
    IN  IF e.expired
        THEN [state |-> [s EXCEPT !.timer = e.timer],
              change |-> Event(IF s.kind = "Control" THEN "ChooseTalkgroup"
                                                     ELSE "ReturnControl")]
        ELSE [state |-> [s EXCEPT !.timer = e.timer], change |-> NoChange]

\* Mutant: the watchdog or pause timer is reset when it expires.
ElapsedMatch_ReturnResets(s, samples) ==
    LET e == TimerExpired(s.timer, samples)
    IN  IF e.expired
        THEN [state |-> [s EXCEPT !.timer = TimerReset(e.timer)],
              change |-> Event(IF s.kind = "Control" THEN "ChooseTalkgroup"
                                                     ELSE "ReturnControl")]
        ELSE [state |-> [s EXCEPT !.timer = e.timer], change |-> NoChange]

\* The match of handle_elapsed: the state after the in-place timer updates, and
\* the StateChange handed to handle_change.
ElapsedMatch(s, samples) ==
    LET e == TimerExpired(s.timer, samples)
    IN  IF s.kind = "Control"
        THEN IF e.expired
             THEN [state |-> [s EXCEPT !.timer = TimerReset(e.timer)],
                   change |-> Event("ChooseTalkgroup")]
             ELSE [state |-> [s EXCEPT !.timer = e.timer], change |-> NoChange]
        ELSE IF e.expired
             THEN [state |-> [s EXCEPT !.timer = e.timer],
                   change |-> Event("ReturnControl")]
             ELSE [state |-> [s EXCEPT !.timer = e.timer], change |-> NoChange]

\* Mutant: a leftover terminator restarts the watchdog.
NidTrafficInit_TermResets(s, du) ==
    IF du \in TermUnits
    THEN [state |-> [s EXCEPT !.timer = TimerReset(s.timer)], change |-> NoChange]
    ELSE IF du \in VoiceUnits
         THEN [state |-> s, change |-> Change(state_traffic(FALSE))]
    ELSE IF du = "TrunkingSignaling"
         THEN [state |-> s, change |-> Event("Resync")]
    ELSE [state |-> s, change |-> NoChange]

\* handle_nid, arm Traffic(_, true).
NidTrafficInit(s, du) ==
    IF du \in TermUnits THEN [state |-> s, change |-> NoChange]
    ELSE IF du \in VoiceUnits
         THEN [state |-> s, change |-> Change(state_traffic(FALSE))]
    ELSE IF du = "TrunkingSignaling"
         THEN [state |-> s, change |-> Event("Resync")]
    ELSE [state |-> s, change |-> NoChange]

\* Mutant: voice packets do not restart the watchdog.
NidTrafficVoice_NoReset(s, du) ==
    IF du \in TermUnits
    THEN [state |-> s, change |-> Change(Paused(TimerNew(pause_time)))]
    ELSE [state |-> s, change |-> NoChange]

\* handle_nid, arm Traffic(ref mut t, false).
NidTrafficVoice(s, du) ==
    IF du \in TermUnits
    THEN [state |-> s, change |-> Change(Paused(TimerNew(pause_time)))]
    ELSE IF du \in VoiceUnits
         THEN [state |-> [s EXCEPT !.timer = TimerReset(s.timer)],
               change |-> NoChange]
    ELSE [state |-> s, change |-> NoChange]

\* Mutant: a terminator received while paused restarts the pause timer.
NidPaused_TermRestarts(s, du) ==
    IF du \in VoiceUnits
    THEN [state |-> s, change |-> Change(state_traffic(TRUE))]
    ELSE IF du \in TermUnits
         THEN [state |-> s, change |-> Change(Paused(TimerNew(pause_time)))]
    ELSE [state |-> s, change |-> NoChange]

\* Mutant: resuming from Paused keeps the elapsed pause time in the watchdog.
NidPaused_KeepsTimer(s, du) ==
    IF du \in VoiceUnits
    THEN [state |-> s,
          change |-> Change(Traffic([s.timer EXCEPT !.max = watchdog_time], TRUE))]
    ELSE [state |-> s, change |-> NoChange]

\* handle_nid, arm Paused(..).
NidPaused(s, du) ==
    IF du \in VoiceUnits
    THEN [state |-> s, change |-> Change(state_traffic(TRUE))]
    ELSE [state |-> s, change |-> NoChange]

\* Mutant: the Traffic arm does not look at the flag.
NidMatch_ResyncAnyTraffic(s, du) ==
    CASE s.kind = "Control" -> [state |-> s, change |-> NoChange]
      [] s.kind = "Traffic" -> NidTrafficInit(s, du)
      [] s.kind = "Paused" -> NidPaused(s, du)

\* Mutant: a NID received on the control channel restarts the select timer.
NidMatch_ControlResets(s, du) ==
    CASE s.kind = "Control" ->
            [state |-> [s EXCEPT !.timer = TimerReset(s.timer)], change |-> NoChange]
      [] s.kind = "Traffic" /\ s.init -> NidTrafficInit(s, du)
      [] s.kind = "Traffic" /\ ~s.init -> NidTrafficVoice(s, du)
      [] s.kind = "Paused" -> NidPaused(s, du)

\* The match of handle_nid.
NidMatch(s, du) ==
    CASE s.kind = "Control" -> [state |-> s, change |-> NoChange]
      [] s.kind = "Traffic" /\ s.init -> NidTrafficInit(s, du)
      [] s.kind = "Traffic" /\ ~s.init -> NidTrafficVoice(s, du)
      [] s.kind = "Paused" -> NidPaused(s, du)

\* Mutant: a call termination is ignored while paused.
CallTermMatch_TrafficOnly(s) ==
    IF s.kind = "Traffic"
    THEN [state |-> s, change |-> Event("ReturnControl")]
    ELSE [state |-> s, change |-> NoChange]

\* The match of handle_call_term.
CallTermMatch(s) ==
    IF s.kind = "Control"
    THEN [state |-> s, change |-> NoChange]
    ELSE [state |-> s, change |-> Event("ReturnControl")]

\* ReceiverPolicy::handle_change applied to the outcome of a match: the new
\* state and the returned Option<PolicyEvent>.
handle_change(m) ==
    CASE m.change.tag = "Change" -> [state |-> m.change.state, ret |-> None]
      [] m.change.tag = "Event" -> [state |-> m.state, ret |-> m.change.event]
      [] m.change.tag = "NoChange" -> [state |-> m.state, ret |-> None]

----------------------------------------------------------------------------
(* Policy actions: one per public method of ReceiverPolicy.                *)

Snapshot == [state |-> state, since |-> since]

\* ReceiverPolicy::new(select, watchdog, pause)
InitPolicy ==
    /\ state = Control(TimerNew(select_time))
    /\ ret = None
    /\ call = [op |-> "new", arg |-> None]
    /\ pre = [state |-> Control(TimerNew(select_time)), since |-> 0]
    /\ since = 0
    /\ quiet = FALSE
    /\ fedSince = 0

handle_elapsed(samples) ==
    /\ state.timer.cur + samples <= MaxCur
    /\ LET r == handle_change(ElapsedMatch(state, samples))
       IN  /\ state' = r.state
           /\ ret' = r.ret
           /\ since' = IF r.ret = "ChooseTalkgroup" THEN 0 ELSE since + samples
           /\ fedSince' = IF r.ret # None THEN 0 ELSE fedSince + samples
    /\ call' = [op |-> "handle_elapsed", arg |-> samples]
    /\ pre' = Snapshot
    /\ UNCHANGED quiet
    /\ UNCHANGED <<selVars, tsPre, pipeVars, hubVars, chanVars, rxVars, auxVars>>

handle_nid(du) ==
    /\ LET r == handle_change(NidMatch(state, du))
       IN  /\ state' = r.state
           /\ ret' = r.ret
           /\ since' = IF \/ du \in VoiceUnits /\ state.kind \in {"Traffic", "Paused"}
                          \/ r.state.kind = "Paused" /\ state.kind # "Paused"
                       THEN 0
                       ELSE since
    /\ fedSince' = IF du \in VoiceUnits /\ state.kind \in {"Traffic", "Paused"}
                    THEN 0 ELSE fedSince
    /\ call' = [op |-> "handle_nid", arg |-> du]
    /\ pre' = Snapshot
    /\ quiet' = FALSE
    /\ UNCHANGED <<selVars, tsPre, pipeVars, hubVars, chanVars, rxVars, auxVars>>

handle_call_term ==
    /\ LET r == handle_change(CallTermMatch(state))
       IN  /\ state' = r.state
           /\ ret' = r.ret
           /\ fedSince' = IF r.ret # None THEN 0 ELSE fedSince
    /\ call' = [op |-> "handle_call_term", arg |-> None]
    /\ pre' = Snapshot
    /\ quiet' = FALSE
    /\ UNCHANGED since
    /\ UNCHANGED <<selVars, tsPre, pipeVars, hubVars, chanVars, rxVars, auxVars>>

enter_traffic ==
    /\ state' = state_traffic(TRUE)
    /\ ret' = None
    /\ call' = [op |-> "enter_traffic", arg |-> None]
    /\ pre' = Snapshot
    /\ since' = 0
    /\ quiet' = TRUE
    /\ fedSince' = 0
    /\ UNCHANGED <<selVars, tsPre, pipeVars, hubVars, chanVars, rxVars, auxVars>>

enter_control ==
    /\ state' = state_control
    /\ ret' = None
    /\ call' = [op |-> "enter_control", arg |-> None]
    /\ pre' = Snapshot
    /\ since' = 0
    /\ quiet' = FALSE
    /\ fedSince' = 0
    /\ UNCHANGED <<selVars, tsPre, pipeVars, hubVars, chanVars, rxVars, auxVars>>

----------------------------------------------------------------------------
(* TalkgroupSelection (src/src/talkgroups.rs).                             *)
(* HashMaps are functions on their key sets, Vecs are sequences. f32       *)
(* priorities and weights are integers, and scores are compared exactly    *)
(* (as rationals scaled by the common positive factor `oldest`).           *)

\* Talkgroup ids offered to the selector (u16 in the source; 0 is the default
\* `recent` and is not used as an id here).
TGs == {1, 2, 3}

\* Traffic channel frequencies (u32 Hz in the source).
Freqs == {1, 2}

\* p25::voice::crypto::CryptoAlgorithm values other than Unencrypted.
Algs == {"Aes"}

EmptyMap == << >>

\* Option<T> of the selector's results: None is the empty tuple, Some(x) is <<x>>
\* (so Some((tg, freq)) is <<<<tg, freq>>>>).
NoneOpt == << >>

Some(x) == <<x>>

\* HashMap::insert
MapInsert(m, k, v) == [x \in (DOMAIN m) \cup {k} |-> IF x = k THEN v ELSE m[x]]

\* usize::wrapping_add / usize::wrapping_sub
WrappingAdd(a, b) == (a + b) % CounterModulus

WrappingSub(a, b) == (a - b + CounterModulus) % CounterModulus

\* FeatureWeights::default
DefaultWeights == [prio |-> 1, age |-> 1, recent |-> 1]

\* Filter::default
DefaultFilter == [exclude |-> TRUE, filt |-> {}]

\* Mutant: the filter set is always an exclusion list.
FilterExcluded_AlwaysExcludeMode(f, tg) == tg \in f.filt

\* Filter::excluded
FilterExcluded(f, tg) ==
    LET filtered == tg \in f.filt
    IN  (f.exclude /\ filtered) \/ (~f.exclude /\ ~filtered)

\* TalkgroupFeatures::record_elapsed
FeatsRecordElapsed(f, samples) ==
    [f EXCEPT !.elapsed = WrappingAdd(f.elapsed, samples)]

\* TalkgroupFeatures::add
FeatsAdd(f, tg) == [f EXCEPT !.age = MapInsert(f.age, tg, f.elapsed)]

\* Mutant: the sample counter is not zeroed by a selection.
FeatsSelect_KeepsElapsed(f, tg) == [f EXCEPT !.age = EmptyMap, !.recent = tg]

\* TalkgroupFeatures::select
FeatsSelect(f, tg) == [f EXCEPT !.age = EmptyMap, !.recent = tg, !.elapsed = 0]

\* TalkgroupFeatures::reset
FeatsReset(f) == FeatsSelect(f, 0)

\* self.age.values().cloned().min().unwrap_or(0)
MinAge(f) ==
    IF DOMAIN f.age = {} THEN 0
    ELSE LET stamps == {f.age[k] : k \in DOMAIN f.age}
         IN  CHOOSE m \in stamps : \A x \in stamps : m <= x

\* Mutant: the elapsed time is taken from the largest stamp.
Oldest_FromNewest(f) ==
    IF DOMAIN f.age = {} THEN f.elapsed
    ELSE LET stamps == {f.age[k] : k \in DOMAIN f.age}
         IN  WrappingSub(f.elapsed, CHOOSE m \in stamps : \A x \in stamps : m >= x)

\* TalkgroupFeatures::oldest
Oldest(f) == WrappingSub(f.elapsed, MinAge(f))

\* Mutant: the user priorities are not consulted.
Prio_Unset(f, tg) == 1

\* self.prios.get(&tg).unwrap_or(&1.0)
Prio(f, tg) == IF tg \in DOMAIN f.prios THEN f.prios[tg] ELSE 1

\* Mutant: the age feature grows with the time waited.
Score_OlderHigher(f, tg) ==
    LET oldest == Oldest(f)
        recent == IF tg = f.recent THEN 1 ELSE 0
        waited == WrappingSub(f.elapsed, f.age[tg])
    IN  IF oldest = 0
        THEN Prio(f, tg) * f.weights.prio + f.weights.age + recent * f.weights.recent
        ELSE Prio(f, tg) * f.weights.prio * oldest
             + waited * f.weights.age
             + recent * f.weights.recent * oldest

\* Mutant: with oldest = 0 the age feature is 0.
Score_NoAgeAtZero(f, tg) ==
    LET oldest == Oldest(f)
        recent == IF tg = f.recent THEN 1 ELSE 0
        waited == WrappingSub(f.elapsed, f.age[tg])
    IN  IF oldest = 0
        THEN Prio(f, tg) * f.weights.prio + recent * f.weights.recent
        ELSE Prio(f, tg) * f.weights.prio * oldest
             + (oldest - waited) * f.weights.age
             + recent * f.weights.recent * oldest

\* The closure `score` of max_score, times Oldest(f) when that is not zero (the
\* same positive factor for every candidate of one call), so that
\* 1.0 - age * oldest.recip() stays an integer; with oldest = 0 the multiplier
\* is 0 and the age feature is 1.0 for every candidate.
Score(f, tg) ==
    LET oldest == Oldest(f)
        recent == IF tg = f.recent THEN 1 ELSE 0
        waited == WrappingSub(f.elapsed, f.age[tg])
    IN  IF oldest = 0
        THEN Prio(f, tg) * f.weights.prio + f.weights.age + recent * f.weights.recent
        ELSE Prio(f, tg) * f.weights.prio * oldest
             + (oldest - waited) * f.weights.age
             + recent * f.weights.recent * oldest

\* let mul = if oldest == 0.0 { 0.0 } else { oldest.recip() }, as the fraction
\* <<numerator, denominator>>: the reciprocal is taken only of a non-zero value.
AgeMul(f) == IF Oldest(f) = 0 THEN <<0, 1>> ELSE <<1, Oldest(f)>>

\* let age = 1.0 - self.elapsed.wrapping_sub(self.age[&tg]) as f32 * mul, as
\* a fraction over the denominator of the multiplier.
AgeTerm(f, tg) ==
    LET mul == AgeMul(f)
    IN  <<mul[2] - WrappingSub(f.elapsed, f.age[tg]) * mul[1], mul[2]>>

\* Mutant: the running maximum is kept unless the next element compares Greater.
RECURSIVE MaxByFold_KeepsFirst(_, _, _, _)
MaxByFold_KeepsFirst(f, groups, i, best) ==
    IF i > Len(groups) THEN best
    ELSE MaxByFold_KeepsFirst(f, groups, i + 1,
                   IF Score(f, groups[i]) > Score(f, best) THEN groups[i] ELSE best)

\* Iterator::max_by as a left fold: the running maximum is replaced by the next
\* element unless it compares Greater.
RECURSIVE MaxByFold(_, _, _, _)
MaxByFold(f, groups, i, best) ==
    IF i > Len(groups) THEN best
    ELSE MaxByFold(f, groups, i + 1,
                   IF Score(f, best) > Score(f, groups[i]) THEN best ELSE groups[i])

\* TalkgroupFeatures::max_score
max_score(f, groups) ==
    IF Len(groups) = 0 THEN NoneOpt
    ELSE Some(MaxByFold(f, groups, 2, groups[1]))

\* TalkgroupSelection::record_elapsed
record_elapsed(t, samples) == [t EXCEPT !.feats = FeatsRecordElapsed(t.feats, samples)]

\* Mutant: only the user filter is consulted, not the encrypted set.
add_talkgroup_NoEncryptedCheck(t, tg, freq) ==
    IF FilterExcluded(t.filter, tg)
    THEN t
    ELSE LET t1 == [t EXCEPT !.feats = FeatsAdd(t.feats, tg),
                             !.channels = MapInsert(t.channels, tg, freq)]
         IN  IF tg \in DOMAIN t.channels
             THEN t1
             ELSE [t1 EXCEPT !.cur = Append(t.cur, tg),
                             !.cur_preempt = IF tg \in t.preempt
                                             THEN Append(t.cur_preempt, tg)
                                             ELSE t.cur_preempt]

\* Mutant: every new candidate is also pushed to the preempt-candidate list.
add_talkgroup_PreemptAlways(t, tg, freq) ==
    IF tg \in DOMAIN t.encrypted \/ FilterExcluded(t.filter, tg)
    THEN t
    ELSE LET t1 == [t EXCEPT !.feats = FeatsAdd(t.feats, tg),
                             !.channels = MapInsert(t.channels, tg, freq)]
         IN  IF tg \in DOMAIN t.channels
             THEN t1
             ELSE [t1 EXCEPT !.cur = Append(t.cur, tg),
                             !.cur_preempt = Append(t.cur_preempt, tg)]

\* Mutant: the frequency first seen for a candidate is kept.
add_talkgroup_KeepsFreq(t, tg, freq) ==
    IF tg \in DOMAIN t.encrypted \/ FilterExcluded(t.filter, tg)
    THEN t
    ELSE IF tg \in DOMAIN t.channels
         THEN [t EXCEPT !.feats = FeatsAdd(t.feats, tg)]
         ELSE [t EXCEPT !.feats = FeatsAdd(t.feats, tg),
                        !.channels = MapInsert(t.channels, tg, freq),
                        !.cur = Append(t.cur, tg),
                        !.cur_preempt = IF tg \in t.preempt
                                        THEN Append(t.cur_preempt, tg)
                                        ELSE t.cur_preempt]

\* TalkgroupSelection::add_talkgroup
add_talkgroup(t, tg, freq) ==
    IF tg \in DOMAIN t.encrypted \/ FilterExcluded(t.filter, tg)
    THEN t
    ELSE LET t1 == [t EXCEPT !.feats = FeatsAdd(t.feats, tg),
                             !.channels = MapInsert(t.channels, tg, freq)]
         IN  IF tg \in DOMAIN t.channels
             THEN t1
             ELSE [t1 EXCEPT !.cur = Append(t.cur, tg),
                             !.cur_preempt = IF tg \in t.preempt
                                             THEN Append(t.cur_preempt, tg)
                                             ELSE t.cur_preempt]

\* Mutant: the channel map survives.
clear_candidates_KeepsChannels(t) == [t EXCEPT !.cur = << >>, !.cur_preempt = << >>]

\* TalkgroupSelection::clear_candidates
clear_candidates(t) ==
    [t EXCEPT !.cur = << >>, !.cur_preempt = << >>, !.channels = EmptyMap]

\* TalkgroupSelection::select_tg: the selector afterwards and the returned pair.
select_tg(t, tg) ==
    LET freq == t.channels[tg]
        t1 == clear_candidates(t)
    IN  [ts |-> [t1 EXCEPT !.feats = FeatsSelect(t1.feats, tg)],
         ret |-> <<tg, freq>>]

\* Option::map(|tg| self.select_tg(tg))
MapSelect(t, opt) ==
    IF opt = NoneOpt
    THEN [ts |-> t, ret |-> NoneOpt]
    ELSE LET r == select_tg(t, opt[1]) IN [ts |-> r.ts, ret |-> Some(r.ret)]

\* TalkgroupSelection::select_idle
select_idle(t) == MapSelect(t, max_score(t.feats, t.cur))

\* TalkgroupSelection::select_preempt
select_preempt(t) == MapSelect(t, max_score(t.feats, t.cur_preempt))

\* TalkgroupSelection::record_encrypted
record_encrypted(t, tg, alg) ==
    [t EXCEPT !.encrypted = MapInsert(t.encrypted, tg, alg)]

\* Mutant: the encrypted set survives clear_state.
clear_state_KeepsEncrypted(t) ==
    LET t1 == clear_candidates(t)
    IN  [t1 EXCEPT !.feats = FeatsReset(t1.feats)]

\* TalkgroupSelection::clear_state
clear_state(t) ==
    LET t1 == clear_candidates(t)
    IN  [t1 EXCEPT !.encrypted = EmptyMap, !.feats = FeatsReset(t1.feats)]

\* TalkgroupSelection::default with the user-set parts (preempt set, filter,
\* priorities, weights) filled in.
NewSelection(preempt, filter, prios, weights) ==
    [cur |-> << >>, cur_preempt |-> << >>, channels |-> EmptyMap,
     encrypted |-> EmptyMap, preempt |-> preempt, filter |-> filter,
     feats |-> [elapsed |-> 0, age |-> EmptyMap, recent |-> 0,
                prios |-> prios, weights |-> weights]]

\* The user configurations the selector is started with: the default, a preempt
\* talkgroup with an excluded one, and an include list with a preempt talkgroup
\* and a priority (as in test_selection and test_filter).
Configs ==
    { NewSelection({}, DefaultFilter, EmptyMap, DefaultWeights),
      NewSelection({2}, [exclude |-> TRUE, filt |-> {3}], EmptyMap, DefaultWeights),
      NewSelection({1}, [exclude |-> FALSE, filt |-> {1, 2}], (2 :> 3), DefaultWeights) }

NoCall == [op |-> "default", tg |-> 0, freq |-> 0, alg |-> None, samples |-> 0]

----------------------------------------------------------------------------
(* Selector actions: one per public method of TalkgroupSelection.          *)

InitSelection(configs) ==
    /\ ts \in configs
    /\ tsCall = NoCall
    /\ tsRet = NoneOpt
    /\ tsPre = NoneOpt

RecordElapsed(samples) ==
    /\ ts' = record_elapsed(ts, samples)
    /\ tsCall' = [NoCall EXCEPT !.op = "record_elapsed", !.samples = samples]
    /\ tsRet' = NoneOpt
    /\ UNCHANGED <<polVars, pipeVars, hubVars, chanVars, rxVars, auxVars>>

AddTalkgroup(tg, freq) ==
    /\ ts' = add_talkgroup(ts, tg, freq)
    /\ tsCall' = [NoCall EXCEPT !.op = "add_talkgroup", !.tg = tg, !.freq = freq]
    /\ tsRet' = NoneOpt
    /\ UNCHANGED <<polVars, pipeVars, hubVars, chanVars, rxVars, auxVars>>

SelectIdle ==
    /\ LET r == select_idle(ts)
       IN  ts' = r.ts /\ tsRet' = r.ret
    /\ tsCall' = [NoCall EXCEPT !.op = "select_idle"]
    /\ UNCHANGED <<polVars, pipeVars, hubVars, chanVars, rxVars, auxVars>>

SelectPreempt ==
    /\ LET r == select_preempt(ts)
       IN  ts' = r.ts /\ tsRet' = r.ret
    /\ tsCall' = [NoCall EXCEPT !.op = "select_preempt"]
    /\ UNCHANGED <<polVars, pipeVars, hubVars, chanVars, rxVars, auxVars>>

RecordEncrypted(tg, alg) ==
    /\ ts' = record_encrypted(ts, tg, alg)
    /\ tsCall' = [NoCall EXCEPT !.op = "record_encrypted", !.tg = tg, !.alg = alg]
    /\ tsRet' = NoneOpt
    /\ UNCHANGED <<polVars, pipeVars, hubVars, chanVars, rxVars, auxVars>>

ClearState ==
    /\ ts' = clear_state(ts)
    /\ tsCall' = [NoCall EXCEPT !.op = "clear_state"]
    /\ tsRet' = NoneOpt
    /\ UNCHANGED <<polVars, pipeVars, hubVars, chanVars, rxVars, auxVars>>

\* The configurations scoring is exercised with: the default weights, a
\* negative age weight (test_age), and two preempt talkgroups of which one has
\* a user priority.
ScoreConfigs ==
    { NewSelection({}, DefaultFilter, EmptyMap, DefaultWeights),
      NewSelection({}, DefaultFilter, EmptyMap, [DefaultWeights EXCEPT !.age = -1]),
      NewSelection({1, 2}, DefaultFilter, (2 :> 2), DefaultWeights) }

\* History kept in SpecScore: the selector a select_idle or select_preempt
\* call was made on.
TrackSelect ==
    tsPre' = IF tsCall'.op \in {"select_idle", "select_preempt"}
             THEN Some(ts) ELSE NoneOpt

----------------------------------------------------------------------------
(* The sample pipeline: Radio::run (src/src/main.rs) checks a byte buffer  *)
(* out of its pool for every block read and sends it to the demodulator;   *)
(* DemodTask::run (src/src/demod.rs) receives it, checks a baseband buffer *)
(* out of its own pool, sends that on and drops the byte buffer;           *)
(* Receiver::run (src/src/main.rs) receives the baseband buffer, feeds its *)
(* samples and drops it.                                                   *)

PoolNames == {"samples", "baseband"}

\* Pool::with_capacity: every buffer starts out free.
PoolWithCapacity(n) == [capacity |-> n, free |-> n]

\* Pool::checkout: Some(handle) while a buffer is free, None otherwise.
PoolCheckout(p) ==
    IF p.free > 0
    THEN [pool |-> [p EXCEPT !.free = @ - 1], ret |-> "Some"]
    ELSE [pool |-> p, ret |-> "None"]

\* Drop of a Checkout handle: the buffer goes back to its pool.
PoolDrop(p) == [p EXCEPT !.free = @ + 1]

\* The handles of a pool that exist: held by a task or queued in a channel.
InFlight(name) ==
    IF name = "samples"
    THEN (IF task.reader = "send" THEN 1 ELSE 0) + sdr_chan
         + (IF task.demod \in {"checkout", "send", "drop"} THEN 1 ELSE 0)
    ELSE (IF task.demod = "send" THEN 1 ELSE 0) + recv_chan
         + (IF task.receiver = "feed" THEN 1 ELSE 0)

NoPoolOp == [op |-> "with_capacity", ret |-> "-", prev |-> "-", by |-> "-", before |-> 0]

\* The history entry of an operation on a pool.
Logged(name, op, r, by) ==
    [poolLog EXCEPT ![name] = [op |-> op, ret |-> r, prev |-> poolLog[name].op,
                               by |-> by, before |-> InFlight(name)]]

InitPipeline ==
    /\ task = [reader |-> "checkout", demod |-> "recv", receiver |-> "recv"]
    /\ pool = [name \in PoolNames |-> PoolWithCapacity(PoolCapacity)]
    /\ sdr_chan = 0
    /\ recv_chan = 0
    /\ poolLog = [name \in PoolNames |-> NoPoolOp]

\* Mutant: the reader carries on after a None checkout.
ReaderCheckout_NotFatal ==
    /\ task.reader = "checkout"
    /\ LET r == PoolCheckout(pool.samples)
       IN  /\ pool' = [pool EXCEPT !.samples = r.pool]
           /\ poolLog' = Logged("samples", "checkout", r.ret, "reader")
    /\ task' = [task EXCEPT !.reader = "send"]
    /\ UNCHANGED <<sdr_chan, recv_chan, polVars, selVars, tsPre,
                   hubVars, chanVars, rxVars, auxVars>>

\* Radio::run, the read_async callback:
\* pool.checkout().expect("unable to allocate samples")
ReaderCheckout ==
    /\ task.reader = "checkout"
    /\ LET r == PoolCheckout(pool.samples)
       IN  /\ pool' = [pool EXCEPT !.samples = r.pool]
           /\ poolLog' = Logged("samples", "checkout", r.ret, "reader")
           /\ task' = [task EXCEPT !.reader = IF r.ret = "None" THEN "dead" ELSE "send"]
    /\ UNCHANGED <<sdr_chan, recv_chan, polVars, selVars, tsPre,
                   hubVars, chanVars, rxVars, auxVars>>

\* Radio::run, the read_async callback:
\* self.chan.send(samples).expect("unable to send sdr samples").  The send
\* waits while the channel is full; with the receiving end gone it fails, the
\* handle is dropped and the task ends.
ReaderSend ==
    /\ task.reader = "send"
    /\ IF task.demod = "dead"
       THEN /\ pool' = [pool EXCEPT !.samples = PoolDrop(pool.samples)]
            /\ poolLog' = Logged("samples", "drop", "-", "reader")
            /\ task' = [task EXCEPT !.reader = "dead"]
            /\ UNCHANGED sdr_chan
       ELSE /\ sdr_chan < SdrChanBound
            /\ sdr_chan' = sdr_chan + 1
            /\ task' = [task EXCEPT !.reader = "checkout"]
            /\ UNCHANGED <<pool, poolLog>>
    /\ UNCHANGED <<recv_chan, polVars, selVars, tsPre,
                   hubVars, chanVars, rxVars, auxVars>>

\* DemodTask::run: self.reader.recv().expect("unable to receive sdr samples").
\* The receive waits while the channel is empty and the reader lives; with the
\* channel empty and the sending end gone it fails and the task ends.
DemodRecv ==
    /\ task.demod = "recv"
    /\ IF sdr_chan > 0
       THEN /\ sdr_chan' = sdr_chan - 1
            /\ task' = [task EXCEPT !.demod = "checkout"]
       ELSE /\ task.reader = "dead"
            /\ task' = [task EXCEPT !.demod = "dead"]
            /\ UNCHANGED sdr_chan
    /\ UNCHANGED <<pool, poolLog, recv_chan, polVars, selVars, tsPre,
                   hubVars, chanVars, rxVars, auxVars>>

\* DemodTask::run: pool.checkout().expect("unable to allocate baseband").  On
\* None the unwinding task drops the byte buffer it holds.
DemodCheckout ==
    /\ task.demod = "checkout"
    /\ LET r == PoolCheckout(pool.baseband)
       IN  IF r.ret = "None"
           THEN /\ pool' = [pool EXCEPT !.samples = PoolDrop(pool.samples)]
                /\ poolLog' = [Logged("baseband", "checkout", r.ret, "demod")
                                 EXCEPT !.samples = Logged("samples", "drop", "-", "demod").samples]
                /\ task' = [task EXCEPT !.demod = "dead"]
           ELSE /\ pool' = [pool EXCEPT !.baseband = r.pool]
                /\ poolLog' = Logged("baseband", "checkout", r.ret, "demod")
                /\ task' = [task EXCEPT !.demod = "send"]
    /\ UNCHANGED <<sdr_chan, recv_chan, polVars, selVars, tsPre,
                   hubVars, chanVars, rxVars, auxVars>>

\* DemodTask::run: self.chan.send(RecvEvent::Baseband(baseband)) on the
\* unbounded channel to the receiver.
DemodSend ==
    /\ task.demod = "send"
    /\ recv_chan' = recv_chan + 1
    /\ task' = [task EXCEPT !.demod = "drop"]
    /\ UNCHANGED <<pool, poolLog, sdr_chan, polVars, selVars, tsPre,
                   hubVars, chanVars, rxVars, auxVars>>

\* DemodTask::run: `bytes` goes out of scope at the end of the loop body.
DemodDropBytes ==
    /\ task.demod = "drop"
    /\ pool' = [pool EXCEPT !.samples = PoolDrop(pool.samples)]
    /\ poolLog' = Logged("samples", "drop", "-", "demod")
    /\ task' = [task EXCEPT !.demod = "recv"]
    /\ UNCHANGED <<sdr_chan, recv_chan, polVars, selVars, tsPre,
                   hubVars, chanVars, rxVars, auxVars>>

\* Receiver::run: self.events.recv() yields ReceiverEvent::Baseband(samples).
ReceiverRecv ==
    /\ task.receiver = "recv"
    /\ recv_chan > 0
    /\ recv_chan' = recv_chan - 1
    /\ task' = [task EXCEPT !.receiver = "feed"]
    /\ UNCHANGED <<pool, poolLog, sdr_chan, polVars, selVars, tsPre,
                   hubVars, chanVars, rxVars, auxVars>>

\* Receiver::run: the samples are fed and the handle goes out of scope at the
\* end of the match arm.
ReceiverDrop ==
    /\ task.receiver = "feed"
    /\ pool' = [pool EXCEPT !.baseband = PoolDrop(pool.baseband)]
    /\ poolLog' = Logged("baseband", "drop", "-", "receiver")
    /\ task' = [task EXCEPT !.receiver = "recv"]
    /\ UNCHANGED <<sdr_chan, recv_chan, polVars, selVars, tsPre,
                   hubVars, chanVars, rxVars, auxVars>>

----------------------------------------------------------------------------
(* HubTask (src/src/hub.rs) with the response helpers of src/src/http.rs.  *)
(* A request is [ver, method, path, body]: body is Some(f) for the JSON    *)
(* {"ctlfreq": f} and NoneOpt for anything else.  A response is [status,   *)
(* headers, body]; status 0 stands for nothing written.  A HubEvent is     *)
(* [kind, op, n]: op the opcode of a TrunkingControl, n its number.        *)

HttpVersions == {"1.1", "1.0"}

Methods == {"GET", "PUT", "OPTIONS", "DELETE"}

Paths == {"/subscribe", "/ctlfreq", "/encrypted", "/stats/reset", "/other"}

Requests ==
    { [ver |-> v, method |-> m, path |-> pa, body |-> b] :
        v \in HttpVersions, m \in Methods, pa \in Paths,
        b \in {NoneOpt} \cup {Some(f) : f \in Freqs} }

\* Outcomes of the socket calls made for a request: try_clone, and the
\* writes of start_stream.
IOs == [clone_ok : BOOLEAN, head_ok : BOOLEAN]

Ev(kind, op, n) == [kind |-> kind, op |-> op, n |-> n]

\* The opcodes stream_event writes a message for (of those modelled).
StreamedTsbk == {"RfssStatusBroadcast", "NetworkStatusBroadcast"}

HubEvents ==
    {Ev("State.UpdateCtlFreq", "", 1),
     Ev("State.UpdateEncrypted", "", 1),
     Ev("State.UpdateChannelParams", "", 0),
     Ev("UpdateCurFreq", "", 1),
     Ev("TrunkingControl", "GroupVoiceGrant", 0)}

\* Route::try_from
RouteTryFrom(path) ==
    CASE path = "/subscribe" -> [route |-> "Subscribe", err |-> 0]
      [] path = "/ctlfreq" -> [route |-> "CtlFreq", err |-> 0]
      [] path = "/encrypted" -> [route |-> "Encrypted", err |-> 0]
      [] path = "/stats/reset" -> [route |-> "ResetStats", err |-> 0]
      [] OTHER -> [route |-> "", err |-> 404]

NoResponse == [status |-> 0, headers |-> {}, body |-> NoneOpt]

\* http::send_head: the status line, Date and the CORS origin header.
HeadLines == {"Date", "Access-Control-Allow-Origin: *"}

\* http::send_status
SendStatus(st) == [status |-> st, headers |-> HeadLines, body |-> NoneOpt]

\* http::send_json
SendJson(msg) ==
    [status |-> 200,
     headers |-> HeadLines \cup {"Content-Type: application/json",
                                 "Transfer-Encoding: chunked"},
     body |-> Some(msg)]

\* HubTask::start_stream
StartStream ==
    [status |-> 200, headers |-> HeadLines \cup {"Content-Type: text/event-stream"},
     body |-> NoneOpt]

\* State::default
StateDefault == [ctlfreq |-> U32Max, encrypted |-> EmptyMap]

\* State::update (the channel parameters are not kept in the model)
StateUpdate(st, e) ==
    CASE e.kind = "State.UpdateCtlFreq" -> [st EXCEPT !.ctlfreq = e.n]
      [] e.kind = "State.UpdateEncrypted" ->
            [st EXCEPT !.encrypted = MapInsert(st.encrypted, e.n, "Aes")]
      [] OTHER -> st

\* HubTask::new
HubNew == [state |-> StateDefault, streamers |-> << >>, alive |-> TRUE]

\* What handle_request hands back: the hub, the response written, the
\* RecvEvents sent, and the status of an Err (0 for Ok(())).
Done(h, resp, sent) == [hub |-> h, resp |-> resp, sent |-> sent, err |-> 0]

Fail(h, code) == [hub |-> h, resp |-> NoResponse, sent |-> << >>, err |-> code]

\* Mutant: the subscriber is pushed without the is_full check.
Subscribe_NoFullCheck(h, conn, io) ==
    IF ~io.clone_ok THEN Fail(h, 500)
    ELSE IF io.head_ok
         THEN Done([h EXCEPT !.streamers = Append(h.streamers, conn)], StartStream, << >>)
         ELSE Done(h, NoResponse, << >>)

\* handle_request, arm (Method::Get, Route::Subscribe)
Subscribe(h, conn, io) ==
    IF ~io.clone_ok THEN Fail(h, 500)
    ELSE IF Len(h.streamers) = StreamerCapacity THEN Fail(h, 429)
    ELSE IF io.head_ok
         THEN Done([h EXCEPT !.streamers = Append(h.streamers, conn)], StartStream, << >>)
         ELSE Done(h, NoResponse, << >>)

\* Mutant: the hub stores the frequency it forwards.
PutCtlFreq_StoresFreq(h, open, body) ==
    IF body = NoneOpt THEN Fail(h, 400)
    ELSE IF ~open THEN Fail(h, 500)
    ELSE Done([h EXCEPT !.state.ctlfreq = body[1]], SendStatus(200),
              <<Ev("SetControlFreq", "", body[1])>>)

\* handle_request, arm (Method::Put, Route::CtlFreq); read_json fails on a
\* body that is not the JSON of a SerdeCtlFreq.
PutCtlFreq(h, open, body) ==
    IF body = NoneOpt THEN Fail(h, 400)
    ELSE IF ~open THEN Fail(h, 500)
    ELSE Done(h, SendStatus(200), <<Ev("SetControlFreq", "", body[1])>>)

\* handle_request, arm (Method::Put, Route::ResetStats): the send is followed
\* by expect, and nothing is written to the stream.
PutResetStats(h, open) ==
    IF open
    THEN Done(h, NoResponse, <<Ev("ResetStats", "", 0)>>)
    ELSE Done([h EXCEPT !.alive = FALSE], NoResponse, << >>)

\* handle_request, arm (Method::Options, _)
Options(h) ==
    Done(h, [status |-> 200,
             headers |-> HeadLines \cup {"Access-Control-Allow-Methods: GET, PUT",
                                         "Access-Control-Allow-Headers: Content-Type"},
             body |-> NoneOpt], << >>)

\* HubTask::handle_request: req.route()? yields the version, the method and
\* the Route of Route::try_from, or the Err of Route::try_from.
handle_request(h, open, req, conn, io) ==
    LET r == RouteTryFrom(req.path)
    IN  IF r.err # 0 THEN Fail(h, r.err)
        ELSE IF req.ver # "1.1" THEN Fail(h, 501)
        ELSE CASE req.method = "GET" /\ r.route = "Subscribe" -> Subscribe(h, conn, io)
               [] req.method = "GET" /\ r.route = "CtlFreq" ->
                     Done(h, SendJson([ctlfreq |-> h.state.ctlfreq]), << >>)
               [] req.method = "PUT" /\ r.route = "CtlFreq" -> PutCtlFreq(h, open, req.body)
               [] req.method = "GET" /\ r.route = "Encrypted" ->
                     Done(h, SendJson([encrypted |-> h.state.encrypted]), << >>)
               [] req.method = "PUT" /\ r.route = "ResetStats" -> PutResetStats(h, open)
               [] req.method = "OPTIONS" -> Options(h)
               [] OTHER -> Fail(h, 405)

\* HubTask::handle_stream: an Err status is sent as the response.
handle_stream(h, open, req, conn, io) ==
    LET r == handle_request(h, open, req, conn, io)
    IN  IF r.err # 0 THEN [r EXCEPT !.resp = SendStatus(r.err)] ELSE r

\* Whether stream_event writes a message for the event.
Writes(e) ==
    /\ e.kind # "State.UpdateChannelParams"
    /\ e.kind = "TrunkingControl" => e.op \in StreamedTsbk

\* tsbk.opcode() of a block whose opcode is none of TsbkOpcode: None.
UnknownOpcode == "?"

\* tsbk.opcode().unwrap() in stream_event: a panic on None.
UnwrapFails(e) == e.kind = "TrunkingControl" /\ e.op = UnknownOpcode

\* HubTask::stream_event on the socket of subscriber c: Ok(()) unless a write
\* is made and fails.
stream_event(e, c, dead) == ~Writes(e) \/ c \notin dead

RECURSIVE KeepAlive(_, _, _, _)
\* The loop of handle_event: pop a streamer, keep it when stream_event is Ok.
KeepAlive(streamers, keep, e, dead) ==
    IF streamers = << >> THEN keep
    ELSE LET c == streamers[Len(streamers)]
             rest == SubSeq(streamers, 1, Len(streamers) - 1)
         IN  KeepAlive(rest, IF stream_event(e, c, dead) THEN Append(keep, c) ELSE keep,
                       e, dead)

\* Mutant: a failed write drops every subscriber.
handle_event_DropsAll(h, e, dead) ==
    [h EXCEPT !.state = StateUpdate(h.state, e),
              !.streamers = IF \A i \in 1..Len(h.streamers) :
                                   stream_event(e, h.streamers[i], dead)
                             THEN KeepAlive(h.streamers, << >>, e, dead)
                             ELSE << >>]

\* HubTask::handle_event
handle_event(h, e, dead) ==
    LET st == IF e.kind \in {"State.UpdateCtlFreq", "State.UpdateEncrypted",
                             "State.UpdateChannelParams"}
              THEN StateUpdate(h.state, e) ELSE h.state
    IN  [h EXCEPT !.state = st, !.streamers = KeepAlive(h.streamers, << >>, e, dead),
                  !.alive = h.alive /\ ~(UnwrapFails(e) /\ h.streamers # << >>)]

NoRequest == [ver |-> "", method |-> "", path |-> "", body |-> NoneOpt]

AllOk == [clone_ok |-> TRUE, head_ok |-> TRUE]

NoHubCall ==
    [op |-> "new", req |-> NoRequest, conn |-> 0, io |-> AllOk,
     ev |-> Ev("", "", 0), dead |-> {}, lastCtl |-> U32Max]

NoHubOut == [resp |-> NoResponse, sent |-> << >>, wrote |-> {}]

InitHub(streamers) ==
    /\ hub = [HubNew EXCEPT !.streamers = streamers]
    /\ recv_open = TRUE
    /\ hubCall = NoHubCall
    /\ hubOut = NoHubOut

\* The connection an accepted request arrives on.
NextConn ==
    LET free == {c \in 1..MaxConns : \A i \in 1..Len(hub.streamers) : hub.streamers[i] # c}
    IN  IF free = {} THEN MaxConns + 1
        ELSE CHOOSE c \in free : \A d \in free : c <= d

\* HubTask::handle_poll, arm HubToken::Request(fd): handle_stream on the
\* accepted connection.
HandleStream(req, io) ==
    /\ hub.alive
    /\ LET r == handle_stream(hub, recv_open, req, NextConn, io)
       IN  /\ hub' = r.hub
           /\ hubOut' = [NoHubOut EXCEPT !.resp = r.resp, !.sent = r.sent]
    /\ hubCall' = [NoHubCall EXCEPT !.op = "request", !.req = req, !.conn = NextConn,
                                    !.io = io, !.lastCtl = hubCall.lastCtl]
    /\ UNCHANGED <<recv_open, polVars, selVars, tsPre, pipeVars, chanVars, rxVars, auxVars>>

\* HubTask::handle_event on an event taken from the channel; dead holds the
\* subscribers whose sockets fail a write.
HandleEvent(e, dead) ==
    /\ hub.alive
    /\ hub' = handle_event(hub, e, dead)
    /\ hubCall' = [NoHubCall EXCEPT !.op = "event", !.ev = e, !.dead = dead,
                      !.lastCtl = IF e.kind = "State.UpdateCtlFreq" THEN e.n
                                  ELSE hubCall.lastCtl]
    /\ hubOut' = [NoHubOut EXCEPT !.wrote =
                      IF Writes(e) THEN {hub.streamers[i] : i \in 1..Len(hub.streamers)} \ dead
                      ELSE {}]
    /\ UNCHANGED <<recv_open, polVars, selVars, tsPre, pipeVars, chanVars, rxVars, auxVars>>

\* The receiver task ends: the receiving end of HubTask.recv is dropped.
RecvTaskExit ==
    /\ recv_open
    /\ recv_open' = FALSE
    /\ UNCHANGED <<hub, hubCall, hubOut, polVars, selVars, tsPre, pipeVars, chanVars, rxVars, auxVars>>

----------------------------------------------------------------------------
(* The hub channel: HubTask.chan and its senders.  The demodulator sends    *)
(* UpdateSignalPower through its throttle (src/src/demod.rs, the counter of *)
(* the throttle as spelled out in src/src/sdr.rs); the receiver sends what  *)
(* it publishes.  Every event is stamped with the number of its send.       *)

NoChanHist ==
    [demod |-> "run", blocks |-> 0, basebands |-> 0, powers |-> 0,
     lastPowerAt |-> 0, prevPowerAt |-> 0, sent |-> 0, rsent |-> 0,
     handled |-> 0, prevHandled |-> 0, curFreqAt |-> 0,
     written |-> [c \in 1..MaxConns |-> 0]]

InitChannel ==
    /\ hub_chan = << >>
    /\ notifier = 0
    /\ chanHist = NoChanHist

\* Sender::send on the hub channel.
ChanSend(q, from, e, n) == Append(q, [from |-> from, ev |-> e, n |-> n])

\* Mutant: the throttle lets every call through.
Throttle_EveryCall(i) == [iter |-> (i + 1) % ThrottleRate, run |-> TRUE]

\* The throttle: the counter after a call, and whether the call is let through.
Throttle(i) ==
    LET iter == (i + 1) % ThrottleRate
    IN  [iter |-> iter, run |-> iter = 0]

\* One iteration of the loop of DemodTask::run for a block of samples: the
\* throttled UpdateSignalPower, the checkout of the baseband buffer (fatal
\* to the task when it fails), the Baseband sent to the receiver.
DemodBlock(checkout_ok) ==
    /\ chanHist.demod = "run"
    /\ chanHist.blocks < MaxBlocks
    /\ LET th == Throttle(notifier)
           blk == chanHist.blocks + 1
       IN  /\ th.run => Len(hub_chan) < MaxQueue
           /\ notifier' = th.iter
           /\ hub_chan' = IF th.run
                          THEN ChanSend(hub_chan, "demod", Ev("UpdateSignalPower", "", 0),
                                        chanHist.sent + 1)
                          ELSE hub_chan
           /\ chanHist' =
                 [chanHist EXCEPT
                     !.blocks = blk,
                     !.sent = IF th.run THEN @ + 1 ELSE @,
                     !.powers = IF th.run THEN @ + 1 ELSE @,
                     !.prevPowerAt = IF th.run THEN chanHist.lastPowerAt ELSE @,
                     !.lastPowerAt = IF th.run THEN blk ELSE @,
                     !.demod = IF checkout_ok THEN "run" ELSE "panicked",
                     !.basebands = IF checkout_ok THEN @ + 1 ELSE @]
    /\ UNCHANGED <<polVars, selVars, tsPre, pipeVars, hubVars, rxVars, auxVars>>

\* What the receiver publishes on the hub channel.
RecvPublished ==
    {Ev("UpdateCurFreq", "", 1), Ev("TrunkingControl", "RfssStatusBroadcast", 0)}

\* The receiver sends an event to the hub.
RecvPublish(e) ==
    /\ chanHist.rsent < MaxRecvSends
    /\ Len(hub_chan) < MaxQueue
    /\ hub_chan' = ChanSend(hub_chan, "recv", e, chanHist.sent + 1)
    /\ chanHist' = [chanHist EXCEPT !.sent = @ + 1, !.rsent = @ + 1]
    /\ UNCHANGED <<notifier, polVars, selVars, tsPre, pipeVars, hubVars, rxVars, auxVars>>

\* Mutant: the newest event is taken first.
try_recv_Newest(q) == [ev |-> q[Len(q)], rest |-> SubSeq(q, 1, Len(q) - 1)]

\* Receiver::try_recv on a channel that holds an event: the oldest one.
try_recv(q) == [ev |-> Head(q), rest |-> Tail(q)]

\* One turn of the loop of HubTask::handle_chan: try_recv yields an event,
\* handle_event handles it.
HandleChan(dead) ==
    /\ hub.alive
    /\ hub_chan # << >>
    /\ LET m == try_recv(hub_chan)
           subs == {hub.streamers[i] : i \in 1..Len(hub.streamers)}
           wrote == IF Writes(m.ev.ev) THEN subs \ dead ELSE {}
       IN  /\ dead \subseteq subs
           /\ Writes(m.ev.ev) \/ dead = {}
           /\ hub_chan' = m.rest
           /\ hub' = handle_event(hub, m.ev.ev, dead)
           /\ hubCall' = [NoHubCall EXCEPT !.op = "event", !.ev = m.ev.ev, !.dead = dead,
                             !.lastCtl = IF m.ev.ev.kind = "State.UpdateCtlFreq"
                                         THEN m.ev.ev.n ELSE hubCall.lastCtl]
           /\ hubOut' = [NoHubOut EXCEPT !.wrote = wrote]
           /\ chanHist' = [chanHist EXCEPT
                              !.prevHandled = chanHist.handled,
                              !.handled = m.ev.n,
                              !.curFreqAt = IF m.ev.ev.kind = "UpdateCurFreq"
                                            THEN m.ev.n ELSE @,
                              !.written = [c \in 1..MaxConns |->
                                              IF c \in wrote THEN m.ev.n ELSE @[c]]]
    /\ UNCHANGED <<notifier, recv_open, polVars, selVars, tsPre, pipeVars, rxVars, auxVars>>

\* A client subscribes while events flow.
ChanSubscribe ==
    /\ Len(hub.streamers) < MaxSubs
    /\ HandleStream([ver |-> "1.1", method |-> "GET", path |-> "/subscribe",
                     body |-> NoneOpt], AllOk)

----------------------------------------------------------------------------
(* The receiver's reactions to the events of its policy.                    *)

\* The control channel frequency the receiver is started on.
ControlFreq == 3

\* input is the trunking signalling block the reaction was to, if it was to one.
NoRxOut == [event |-> None, selected |-> NoneOpt, sent |-> << >>, input |-> NoneOpt]

InitReceiver ==
    /\ rx = [current_group |-> 0, current_freq |-> ControlFreq, ctlfreq |-> ControlFreq,
             channels |-> {}]
    /\ rxOut = NoRxOut

\* A message sent by the receiver: to the control task, the hub or the audio
\* task.
Msg(to, kind, n) == [to |-> to, kind |-> kind, n |-> n]

\* set_freq: the frequency becomes the current one, the control task and the
\* hub are told.
set_freq(r, freq) ==
    [rx |-> [r EXCEPT !.current_freq = freq],
     sent |-> <<Msg("control", "SetFreq", freq), Msg("hub", "UpdateCurFreq", freq)>>]

\* switch_control: audio-end, back to the control frequency, policy enters
\* Control.
switch_control(r) ==
    LET f == set_freq(r, r.ctlfreq)
    IN  [state |-> state_control, rx |-> f.rx,
         sent |-> <<Msg("audio", "EndTransmission", 0)>> \o f.sent]

\* select_talkgroup: the talkgroup becomes the current one, the receiver moves
\* to its frequency, policy enters Traffic, the hub is told.
select_talkgroup(r, tg, freq) ==
    LET f == set_freq([r EXCEPT !.current_group = tg], freq)
    IN  [state |-> state_traffic(TRUE), rx |-> f.rx,
         sent |-> f.sent \o <<Msg("hub", "UpdateTalkGroup", tg)>>]

\* The reaction to the Option<PolicyEvent> of the policy, with the policy
\* state s, the selector t and the receiver r as they are after the call.
React(s, t, r, e) ==
    CASE e = "ReturnControl" ->
            LET sw == switch_control(r)
            IN  [state |-> sw.state, ts |-> t, rx |-> sw.rx, selected |-> NoneOpt,
                 sent |-> sw.sent]
      [] e = "ChooseTalkgroup" ->
            LET sel == select_idle(t)
            IN  IF sel.ret = NoneOpt
                THEN [state |-> s, ts |-> sel.ts, rx |-> r, selected |-> NoneOpt,
                      sent |-> << >>]
                ELSE LET st == select_talkgroup(r, sel.ret[1][1], sel.ret[1][2])
                     IN  [state |-> st.state, ts |-> sel.ts, rx |-> st.rx,
                          selected |-> sel.ret, sent |-> st.sent]
      [] OTHER -> [state |-> s, ts |-> t, rx |-> r, selected |-> NoneOpt, sent |-> << >>]

\* What a reaction leaves in the variables of the policy and the selector.
Reacted(p, re, op, arg, zeroed, samples) ==
    /\ state' = re.state
    /\ ret' = p.ret
    /\ call' = [op |-> op, arg |-> arg]
    /\ pre' = Snapshot
    /\ since' = IF zeroed \/ p.ret \in {"ChooseTalkgroup", "ReturnControl"}
                THEN 0 ELSE since + samples
    /\ fedSince' = IF \/ p.ret # None
                       \/ /\ op = "handle_nid" /\ arg \in VoiceUnits
                          /\ state.kind \in {"Traffic", "Paused"}
                    THEN 0 ELSE fedSince + samples
    /\ quiet' = IF re.state.kind = "Traffic" /\ re.selected # NoneOpt THEN TRUE
                ELSE IF op = "handle_elapsed" /\ p.ret = None THEN quiet ELSE FALSE
    /\ ts' = re.ts
    /\ tsCall' = IF p.ret = "ChooseTalkgroup"
                 THEN [NoCall EXCEPT !.op = "select_idle"]
                 ELSE IF op = "handle_elapsed"
                      THEN [NoCall EXCEPT !.op = "record_elapsed", !.samples = arg]
                      ELSE tsCall
    /\ tsRet' = IF p.ret = "ChooseTalkgroup" \/ op = "handle_elapsed"
                THEN re.selected ELSE tsRet
    /\ rx' = re.rx
    /\ rxOut' = [NoRxOut EXCEPT !.event = p.ret, !.selected = re.selected,
                                 !.sent = re.sent]
    /\ UNCHANGED <<tsPre, pipeVars, hubVars, chanVars, auxVars>>

\* A block of baseband samples with nothing decoded in it: the selector
\* records the samples, the policy is fed the block length, the receiver reacts.
RxElapsed(samples) ==
    /\ state.timer.cur + samples <= MaxCur
    /\ LET p == handle_change(ElapsedMatch(state, samples))
           re == React(p.state, record_elapsed(ts, samples), rx, p.ret)
       IN  Reacted(p, re, "handle_elapsed", samples, FALSE, samples)

\* A decoded NID: the policy is fed the data unit, the receiver reacts.
RxNid(du) ==
    /\ LET p == handle_change(NidMatch(state, du))
           re == React(p.state, ts, rx, p.ret)
           zeroed == \/ du \in VoiceUnits /\ state.kind \in {"Traffic", "Paused"}
                     \/ p.state.kind = "Paused" /\ state.kind # "Paused"
       IN  Reacted(p, re, "handle_nid", du, zeroed, 0)

\* A decoded call termination: the policy is told, the receiver reacts.
RxCallTerm ==
    /\ LET p == handle_change(CallTermMatch(state))
           re == React(p.state, ts, rx, p.ret)
       IN  Reacted(p, re, "handle_call_term", None, FALSE, 0)

\* A decoded GroupVoiceGrant: the block is published, the talkgroup and its
\* channel are collected.  Grants are trunking signalling, which is sent on
\* the control channel.
RxGrant(tg, freq) ==
    /\ state.kind = "Control"
    /\ ts' = add_talkgroup(ts, tg, freq)
    /\ tsCall' = [NoCall EXCEPT !.op = "add_talkgroup", !.tg = tg, !.freq = freq]
    /\ tsRet' = NoneOpt
    /\ rxOut' = [NoRxOut EXCEPT !.sent = <<Msg("hub", "TrunkingControl", 0)>>]
    /\ UNCHANGED <<rx, polVars, tsPre, pipeVars, hubVars, chanVars, auxVars>>

----------------------------------------------------------------------------
(* The receiver as the publisher of the hub's events: trunking signalling  *)
(* blocks, encrypted calls and changes of the control frequency.           *)

Opcodes == {"GroupVoiceGrant", "RfssStatusBroadcast", "ChannelParamsUpdate"}

\* The trunking signalling blocks decoded: manufacturer id, whether the CRC
\* received is the CRC computed, and the opcode.
Tsbk(mfg, crc_ok, opcode) == [mfg |-> mfg, crc_ok |-> crc_ok, opcode |-> opcode]

\* Those tried: every known opcode in a valid block, and a block for each
\* reason to drop it, alone and all together.
Tsbks ==
    {Tsbk(0, TRUE, op) : op \in Opcodes}
        \cup {Tsbk(1, TRUE, "GroupVoiceGrant"), Tsbk(0, FALSE, "GroupVoiceGrant"),
              Tsbk(0, TRUE, UnknownOpcode), Tsbk(1, FALSE, UnknownOpcode)}

\* Mutant: a block with an unknown opcode is let through.
TsbkAccepted_AnyOpcode(tsbk) == tsbk.mfg = 0 /\ tsbk.crc_ok

\* The three early returns of handle_tsbk.
TsbkAccepted(tsbk) == tsbk.mfg = 0 /\ tsbk.crc_ok /\ tsbk.opcode # UnknownOpcode

\* The control frequencies the receiver is set to.
CtlFreqs == {ControlFreq, ControlFreq + 1}

\* The events the receiver may publish in one run.
MaxSiteSends == 6

\* The events sent to the hub, in order, on the hub channel.
SendAll(q, evs, n) ==
    q \o [i \in 1..Len(evs) |-> [from |-> "recv", ev |-> evs[i], n |-> n + i]]

\* The messages of a reaction that go to the hub, as hub events.
HubEventsOf(msgs) ==
    LET toHub == SelectSeq(msgs, LAMBDA m : m.to = "hub")
    IN  [i \in 1..Len(toHub) |-> Ev(toHub[i].kind, "", toHub[i].n)]

\* What a step of the receiver leaves behind: the policy state, the
\* selector, the receiver, the events published.
Published(s, t, r, evs, out) ==
    /\ chanHist.rsent + Len(evs) <= MaxSiteSends
    /\ Len(hub_chan) + Len(evs) <= MaxQueue
    /\ state' = s
    /\ ts' = t
    /\ rx' = r
    /\ rxOut' = out
    /\ hub_chan' = SendAll(hub_chan, evs, chanHist.sent)
    /\ chanHist' = [chanHist EXCEPT !.sent = @ + Len(evs), !.rsent = @ + Len(evs)]
    /\ UNCHANGED <<ret, call, pre, since, quiet, fedSince, tsCall, tsRet, tsPre,
                   notifier, pipeVars, hubVars, auxVars>>

\* A decoded trunking signalling block: dropped unless accepted, else
\* published and dispatched on its opcode.
RxTsbk(tsbk) ==
    LET out == [NoRxOut EXCEPT !.input = Some(tsbk)]
    IN  IF ~TsbkAccepted(tsbk)
        THEN Published(state, ts, rx, << >>, out)
        ELSE LET tc == Ev("TrunkingControl", tsbk.opcode, 0)
             IN  CASE tsbk.opcode = "GroupVoiceGrant" ->
                        Published(state, add_talkgroup(ts, 1, 1), rx, <<tc>>, out)
                   [] tsbk.opcode = "ChannelParamsUpdate" ->
                        Published(state, ts, [rx EXCEPT !.channels = @ \cup {1}],
                                  <<tc, Ev("State.UpdateChannelParams", "", 0)>>, out)
                   [] OTHER -> Published(state, ts, rx, <<tc>>, out)

\* The select timer ran out on the control channel: the reaction to
\* ChooseTalkgroup.
RxChoose ==
    /\ state.kind = "Control"
    /\ LET re == React(state, ts, rx, "ChooseTalkgroup")
       IN  Published(re.state, re.ts, re.rx, HubEventsOf(re.sent),
                     [NoRxOut EXCEPT !.event = "ChooseTalkgroup",
                                     !.selected = re.selected, !.sent = re.sent])

\* A voice header or crypto control of an encrypted call on the traffic
\* channel: the current talkgroup is recorded as encrypted, the hub is told,
\* the receiver goes back to the control channel.
RxEncrypted(alg) ==
    /\ state.kind = "Traffic"
    /\ LET sw == switch_control(rx)
           evs == <<Ev("State.UpdateEncrypted", "", rx.current_group)>>
                      \o HubEventsOf(sw.sent)
       IN  Published(sw.state, record_encrypted(ts, rx.current_group, alg), sw.rx, evs,
                     [NoRxOut EXCEPT !.sent = sw.sent])

\* RecvEvent::SetControlFreq: the channel parameters are discarded, the
\* selector is cleared, the hub is told the frequency.
RxSetControlFreq(freq) ==
    /\ freq \in CtlFreqs
    /\ Published(state, clear_state(ts), [rx EXCEPT !.ctlfreq = freq, !.channels = {}],
                 <<Ev("State.UpdateCtlFreq", "", freq)>>, NoRxOut)

----------------------------------------------------------------------------
(* HubToken: the poll tokens of the hub.                                    *)

\* A machine word is the set of the positions of its one bits, so that the
\* bitwise operators are the set operators at full width.  RawFd is an i32;
\* usize is 32 or 64 bits wide, by platform.
FdBits == 32

UsizeWidths == {32, 64}

Word(width) == 0..(width - 1)

CONNS == {31}

EVENTS == {30}

REQUEST == {29}

\* (1 << 24) - 1
FD_MASK == 0..23

\* !(FD_MASK as usize)
TAG_MASK(width) == Word(width) \ FD_MASK

\* fd as usize: a negative RawFd is sign-extended.
AsUsize(fd, width) == IF (FdBits - 1) \in fd THEN fd \cup (FdBits..(width - 1)) ELSE fd

\* tok.0 as RawFd: the low 32 bits.
AsRawFd(word) == word \cap Word(FdBits)

Conns == [kind |-> "Conns", fd |-> {}]

Events == [kind |-> "Events", fd |-> {}]

Request(fd) == [kind |-> "Request", fd |-> fd]

\* A failed assert! or a panic! in place of a value.
Panicked == [kind |-> "panic", fd |-> {}]

\* impl From<HubToken> for Token
TokenFrom(ht, width) ==
    CASE ht.kind = "Conns" -> CONNS
      [] ht.kind = "Events" -> EVENTS
      [] ht.kind = "Request" -> REQUEST \cup AsUsize(ht.fd, width)

\* impl From<Token> for HubToken
HubTokenFrom(word, width) ==
    LET tag == word \cap TAG_MASK(width)
    IN  CASE tag = CONNS -> Conns
          [] tag = EVENTS -> Events
          [] tag = REQUEST -> Request(AsRawFd(word) \cap FD_MASK)
          [] OTHER -> Panicked

\* A mutant of for_request: without the assertion.
for_request_NoAssert(fd) == Request(fd)

\* HubToken::for_request
for_request(fd) ==
    IF fd \cap (Word(FdBits) \ FD_MASK) = {} THEN Request(fd) ELSE Panicked

\* The file descriptors tried: every combination of these bits, so with and
\* without bits above the 24 of FD_MASK, the tag bits and the sign bit among
\* them.
FdBitChoices == {0, 1, 23, 24, 29, 30, 31}

Fds == SUBSET FdBitChoices

InitToken(widths) ==
    tok \in {[width |-> w, op |-> None, arg |-> {}, ht |-> NoneOpt,
              token |-> NoneOpt, out |-> NoneOpt] : w \in widths}

TokUnchanged ==
    UNCHANGED <<polVars, selVars, tsPre, pipeVars, hubVars, chanVars, rxVars, rp>>

\* Hub::new: the tokens of the listening socket and of the event channel.
TokNew(ht) ==
    /\ tok' = [tok EXCEPT !.op = "new", !.arg = {}, !.ht = Some(ht),
                          !.token = NoneOpt, !.out = NoneOpt]
    /\ TokUnchanged

\* Hub::handle_conns: the token of an accepted connection.
TokForRequest(fd) ==
    /\ tok' = [tok EXCEPT !.op = "for_request", !.arg = fd,
                          !.ht = Some(for_request(fd)),
                          !.token = NoneOpt, !.out = NoneOpt]
    /\ TokUnchanged

\* events.register(.., tok.into(), ..): the HubToken becomes a Token.
TokRegister ==
    /\ tok.ht # NoneOpt
    /\ tok.ht[1] # Panicked
    /\ tok.token = NoneOpt
    /\ tok' = [tok EXCEPT !.token = Some(TokenFrom(tok.ht[1], tok.width))]
    /\ TokUnchanged

\* Hub::handle_poll: e.token().into(), the Token becomes a HubToken again.
TokPoll ==
    /\ tok.token # NoneOpt
    /\ tok.out = NoneOpt
    /\ tok' = [tok EXCEPT !.out = Some(HubTokenFrom(tok.token[1], tok.width))]
    /\ TokUnchanged

----------------------------------------------------------------------------
(* ReplayReceiver::replay.                                                  *)

\* The size of an f32 sample in bytes.
SampleBytes == 4

\* The read buffer in samples (32768 bytes in the source), and the longest
\* recording in bytes.
ReplaySamples == 1

MaxStream == 6

ReplayBufLen == ReplaySamples * SampleBytes

\* slice_cast::cast: the bytes regrouped as samples.
cast(bytes) ==
    [i \in 1..(Len(bytes) \div SampleBytes) |->
        SubSeq(bytes, SampleBytes * (i - 1) + 1, SampleBytes * i)]

\* The bytes of a sequence of samples.
BytesOf(samples) ==
    [i \in 1..(SampleBytes * Len(samples)) |->
        samples[((i - 1) \div SampleBytes) + 1][((i - 1) % SampleBytes) + 1]]

\* The recording: byte i has the value i; the buffer starts zeroed.
InitReplay(lens) ==
    rp \in {[stream |-> [i \in 1..len |-> i], buf |-> [i \in 1..ReplayBufLen |-> 0],
             fed |-> << >>, read |-> << >>, status |-> "reading", reads |-> 0,
             last |-> 0] : len \in lens}

\* stream.read(&mut buf): size bytes of the stream land at the front of the
\* buffer, the rest of the buffer is left as it was.
ReadInto(buf, stream, size) ==
    [i \in 1..Len(buf) |-> IF i <= size THEN stream[i] ELSE buf[i]]

\* self.feed(cast(&buf[..])): the samples handed to the decoder.
ReplayFeed(buf, size) == cast(buf)

\* One iteration of the loop of replay: a read of size bytes (0 only at the end
\* of the stream, fewer than the buffer holds when the reader returns short),
\* then the feed; a failed read is fatal.
ReplayStep(size, ok) ==
    /\ rp.status = "reading"
    /\ size <= Len(rp.stream)
    /\ size = 0 <=> Len(rp.stream) = 0
    /\ rp' = IF ~ok THEN [rp EXCEPT !.status = "panicked"]
             ELSE IF size = 0 THEN [rp EXCEPT !.status = "done", !.last = 0]
             ELSE LET buf == ReadInto(rp.buf, rp.stream, size)
                  IN  [rp EXCEPT !.stream = SubSeq(rp.stream, size + 1, Len(rp.stream)),
                                 !.buf = buf,
                                 !.fed = rp.fed \o ReplayFeed(buf, size),
                                 !.read = rp.read \o SubSeq(rp.stream, 1, size),
                                 !.reads = rp.reads + 1,
                                 !.last = size]
    /\ UNCHANGED <<polVars, selVars, tsPre, pipeVars, hubVars, chanVars, rxVars, tok>>

----------------------------------------------------------------------------
(* Specifications.                                                         *)

\* The policy object under every sequence of calls.
Init ==
    /\ InitPolicy
    /\ InitSelection({NewSelection({}, DefaultFilter, EmptyMap, DefaultWeights)})
    /\ InitPipeline
    /\ InitHub(<< >>)
    /\ InitChannel
    /\ InitReceiver
    /\ InitToken({32})
    /\ InitReplay({0})

Next ==
    \/ \E samples \in 0..MaxSamples : handle_elapsed(samples)
    \/ \E du \in DataUnits : handle_nid(du)
    \/ handle_call_term
    \/ enter_traffic
    \/ enter_control

Spec == Init /\ [][Next]_vars

\* The policy while baseband keeps arriving: Receiver::run feeds every block it
\* receives to handle_elapsed, so a block of positive length is fed again and
\* again for as long as one fits the range of the model.
LiveBlocks == {0, 1, select_time}

NextLive ==
    \/ \E samples \in LiveBlocks : handle_elapsed(samples)
    \/ \E du \in DataUnits : handle_nid(du)
    \/ handle_call_term
    \/ enter_traffic
    \/ enter_control

SpecLive ==
    /\ Init
    /\ [][NextLive]_vars
    /\ WF_vars(\E samples \in LiveBlocks \ {0} : handle_elapsed(samples))

\* The talkgroup selector under every sequence of calls.
InitSel ==
    /\ InitPolicy
    /\ InitSelection(Configs)
    /\ InitPipeline
    /\ InitHub(<< >>)
    /\ InitChannel
    /\ InitReceiver
    /\ InitToken({32})
    /\ InitReplay({0})

NextSel ==
    \/ \E samples \in 1..MaxStep :
           /\ ts.feats.elapsed + samples <= MaxElapsed
           /\ RecordElapsed(samples) /\ UNCHANGED tsPre
    \/ \E tg \in TGs, freq \in Freqs : AddTalkgroup(tg, freq) /\ UNCHANGED tsPre
    \/ SelectIdle /\ UNCHANGED tsPre
    \/ SelectPreempt /\ UNCHANGED tsPre
    \/ \E tg \in TGs, alg \in Algs : RecordEncrypted(tg, alg) /\ UNCHANGED tsPre
    \/ ClearState /\ UNCHANGED tsPre

SpecSel == InitSel /\ [][NextSel]_vars

\* The selector's scoring: candidates collected at different counter values,
\* with the selector before each selection kept as history.
InitScore ==
    /\ InitPolicy
    /\ InitSelection(ScoreConfigs)
    /\ InitPipeline
    /\ InitHub(<< >>)
    /\ InitChannel
    /\ InitReceiver
    /\ InitToken({32})
    /\ InitReplay({0})

NextScore ==
    \/ \E samples \in 1..MaxStep :
           /\ ts.feats.elapsed + samples <= MaxWait
           /\ RecordElapsed(samples) /\ TrackSelect
    \/ \E tg \in TGs : AddTalkgroup(tg, 1) /\ TrackSelect
    \/ SelectIdle /\ TrackSelect
    \/ SelectPreempt /\ TrackSelect
    \/ ClearState /\ TrackSelect

SpecScore == InitScore /\ [][NextScore]_vars

\* The pipeline tasks, one step of one task at a time.
InitPool ==
    /\ InitPolicy
    /\ InitSelection({NewSelection({}, DefaultFilter, EmptyMap, DefaultWeights)})
    /\ InitPipeline
    /\ InitHub(<< >>)
    /\ InitChannel
    /\ InitReceiver
    /\ InitToken({32})
    /\ InitReplay({0})

NextPool ==
    \/ ReaderCheckout
    \/ ReaderSend
    \/ DemodRecv
    \/ DemodCheckout
    \/ DemodSend
    \/ DemodDropBytes
    \/ ReceiverRecv
    \/ ReceiverDrop

SpecPool == InitPool /\ [][NextPool]_vars

\* The hub under every sequence of requests and events.
InitHubSpec ==
    /\ InitPolicy
    /\ InitSelection({NewSelection({}, DefaultFilter, EmptyMap, DefaultWeights)})
    /\ InitPipeline
    /\ InitHub(<< >>)
    /\ InitChannel
    /\ InitReceiver
    /\ InitToken({32})
    /\ InitReplay({0})

\* The requests the hub is given, each with the outcomes of its socket calls:
\* a body only on PUT /ctlfreq, a failing socket call only on GET /subscribe.
HubInputs ==
    { x \in Requests \X IOs :
        /\ x[2] = AllOk \/ (x[1].method = "GET" /\ x[1].path = "/subscribe")
        /\ x[1].body = NoneOpt \/ (x[1].method = "PUT" /\ x[1].path = "/ctlfreq") }

NextHub ==
    \/ \E x \in HubInputs : HandleStream(x[1], x[2])
    \/ \E e \in HubEvents :
           \E dead \in SUBSET {hub.streamers[i] : i \in 1..Len(hub.streamers)} :
               /\ Writes(e) \/ dead = {}
               /\ HandleEvent(e, dead)
    \/ RecvTaskExit

SpecHub == InitHubSpec /\ [][NextHub]_vars

\* The hub channel with its two senders, the hub and its subscribers.
InitChan ==
    /\ InitPolicy
    /\ InitSelection({NewSelection({}, DefaultFilter, EmptyMap, DefaultWeights)})
    /\ InitPipeline
    /\ InitHub(<< >>)
    /\ InitChannel
    /\ InitReceiver
    /\ InitToken({32})
    /\ InitReplay({0})

NextChan ==
    \/ \E ok \in BOOLEAN : DemodBlock(ok)
    \/ \E e \in RecvPublished : RecvPublish(e)
    \/ \E dead \in SUBSET {hub.streamers[i] : i \in 1..Len(hub.streamers)} :
           HandleChan(dead)
    \/ ChanSubscribe /\ UNCHANGED <<hub_chan, notifier, chanHist>>

SpecChan == InitChan /\ [][NextChan]_vars

\* The receiver: blocks, decoded packets and the reactions to the policy.
InitRecv ==
    /\ InitPolicy
    /\ InitSelection({NewSelection({}, DefaultFilter, EmptyMap, DefaultWeights)})
    /\ InitPipeline
    /\ InitHub(<< >>)
    /\ InitChannel
    /\ InitReceiver
    /\ InitToken({32})
    /\ InitReplay({0})

\* The lengths of the blocks fed to the receiver.
BlockLens == {select_time \div 2, select_time}

\* The talkgroups that are granted channels.
GrantedTGs == {1, 2}

NextRecv ==
    \/ \E samples \in BlockLens : RxElapsed(samples)
    \/ \E du \in DataUnits : RxNid(du)
    \/ RxCallTerm
    \/ \E tg \in GrantedTGs, freq \in Freqs : RxGrant(tg, freq)

SpecRecv == InitRecv /\ [][NextRecv]_vars

\* The selector with its counter wrapping around: the counter is brought
\* close to its largest value before candidates are collected, and no
\* candidate is left waiting for half the range of the counter.
HalfRange == CounterModulus \div 2

WrapSteps == {1, CounterModulus - 1}

NextWrap ==
    \/ \E samples \in WrapSteps :
           /\ samples = 1 \/ DOMAIN ts.feats.age = {}
           /\ \A k \in DOMAIN ts.feats.age :
                  WrappingSub(ts.feats.elapsed, ts.feats.age[k]) + samples < HalfRange
           /\ RecordElapsed(samples) /\ TrackSelect
    \/ \E tg \in GrantedTGs : AddTalkgroup(tg, 1) /\ TrackSelect
    \/ SelectIdle /\ TrackSelect

SpecWrap == Init /\ [][NextWrap]_vars

\* The receiver publishing, the hub handling and its subscribers.
NextSite ==
    \/ \E tsbk \in Tsbks : RxTsbk(tsbk)
    \/ RxChoose
    \/ \E alg \in Algs : RxEncrypted(alg)
    \/ \E freq \in CtlFreqs : RxSetControlFreq(freq)
    \/ \E dead \in SUBSET {hub.streamers[i] : i \in 1..Len(hub.streamers)} :
           HandleChan(dead)
    \/ /\ hub.streamers = << >>
       /\ ChanSubscribe /\ UNCHANGED <<hub_chan, notifier, chanHist>>

SpecSite == InitChan /\ [][NextSite]_vars

\* The poll tokens: built, registered and read back from a poll event.
InitTok ==
    /\ InitPolicy
    /\ InitSelection({NewSelection({}, DefaultFilter, EmptyMap, DefaultWeights)})
    /\ InitPipeline
    /\ InitHub(<< >>)
    /\ InitChannel
    /\ InitReceiver
    /\ InitToken(UsizeWidths)
    /\ InitReplay({0})

NextTok ==
    \/ \E ht \in {Conns, Events} : TokNew(ht)
    \/ \E fd \in Fds : TokForRequest(fd)
    \/ TokRegister
    \/ TokPoll

SpecTok == InitTok /\ [][NextTok]_vars

\* The replay of a recording, read by read.
InitRep ==
    /\ InitPolicy
    /\ InitSelection({NewSelection({}, DefaultFilter, EmptyMap, DefaultWeights)})
    /\ InitPipeline
    /\ InitHub(<< >>)
    /\ InitChannel
    /\ InitReceiver
    /\ InitToken({32})
    /\ InitReplay(0..MaxStream)

NextReplay == \E size \in 0..ReplayBufLen, ok \in BOOLEAN : ReplayStep(size, ok)

SpecReplay == InitRep /\ [][NextReplay]_vars

TypeOK ==
    /\ state.kind \in {"Control", "Traffic", "Paused"}
    /\ state.timer.cur \in 0..MaxCur
    /\ state.timer.max \in {select_time, watchdog_time, pause_time}
    /\ ret \in PolicyEvents \cup {None}
    /\ since \in 0..MaxCur
    /\ quiet \in BOOLEAN
    /\ DOMAIN ts.channels \subseteq TGs
    /\ DOMAIN ts.encrypted \subseteq TGs
    /\ ts.feats.elapsed \in 0..(CounterModulus - 1)
    /\ ts.feats.recent \in TGs \cup {0}
    /\ tsRet = NoneOpt \/ tsRet[1] \in TGs \X Freqs

----------------------------------------------------------------------------
(* Properties of ReceiverPolicy, checked under Spec.                       *)

IsElapsed == call.op = "handle_elapsed"

IsNid == call.op = "handle_nid"

IsCallTerm == call.op = "handle_call_term"

\* C1: in Control, handle_elapsed(n) returns ChooseTalkgroup exactly when the
\* samples accumulated since the select timer was last zeroed (by new(),
\* enter_control() or the previous ChooseTalkgroup) reach select_time; that call
\* zeroes the timer, the state stays Control, and every other call returns None
\* and keeps the samples counted.
C1_SelectWindow ==
    (IsElapsed /\ pre.state.kind = "Control") =>
        /\ state.kind = "Control"
        /\ ret \in {None, "ChooseTalkgroup"}
        /\ (ret = "ChooseTalkgroup") <=> (pre.since + call.arg >= select_time)
        /\ (ret = "ChooseTalkgroup") => state.timer = TimerNew(select_time)
        /\ (ret = None) => state.timer.cur = pre.since + call.arg

\* elapsed(9) -> None, then elapsed(1) -> ChooseTalkgroup.
C1_Witness ==
    /\ IsElapsed /\ pre.state.kind = "Control"
    /\ pre.since = 9 /\ call.arg = 1 /\ ret = "ChooseTalkgroup"

\* C2: after enter_traffic(), with only handle_elapsed calls since, each call
\* returns ReturnControl exactly when the cumulative samples have reached
\* watchdog_time, None below it, and never another event.
C2_WatchdogRoundTrip ==
    (quiet /\ IsElapsed) =>
        /\ state.kind = "Traffic"
        /\ ret \in {None, "ReturnControl"}
        /\ (ret = "ReturnControl") <=> (since >= watchdog_time)

\* enter_traffic(); elapsed(5) -> None; elapsed(15) -> ReturnControl.
C2_Witness ==
    /\ quiet /\ IsElapsed
    /\ pre.since = 5 /\ call.arg = 15 /\ ret = "ReturnControl"

\* C3: in Traffic(_, true) a terminator NID returns None and leaves the state and
\* its watchdog exactly as they were; the watchdog of Traffic(_, true) expires
\* once the samples fed since the traffic state was entered reach watchdog_time,
\* terminators in between or not.
C3_InitialTerminatorIgnored ==
    /\ (IsNid /\ call.arg \in TermUnits /\ pre.state.kind = "Traffic" /\ pre.state.init)
           => (ret = None /\ state = pre.state /\ since = pre.since)
    /\ (IsElapsed /\ pre.state.kind = "Traffic" /\ pre.state.init)
           => ((ret = "ReturnControl") <=> (pre.since + call.arg >= watchdog_time))

\* enter_traffic(); elapsed(5); nid(terminator) -> None with 5 samples kept.
C3_Witness ==
    /\ IsNid /\ call.arg \in TermUnits
    /\ pre.state.kind = "Traffic" /\ pre.state.init
    /\ pre.since = 5 /\ state.timer.cur = 5 /\ ret = None

\* C4: handle_nid returns Resync exactly when the state is Traffic(_, true) and
\* the data unit is TrunkingSignaling, and that call changes nothing; handle_nid
\* returns no other event.
C4_ResyncOnlyInitialTsbk ==
    IsNid =>
        /\ ret \in {None, "Resync"}
        /\ (ret = "Resync") <=> /\ pre.state.kind = "Traffic"
                                /\ pre.state.init
                                /\ call.arg = "TrunkingSignaling"
        /\ (ret = "Resync") => state = pre.state

C4_Witness ==
    /\ IsNid /\ ret = "Resync" /\ pre.since > 0

\* C5: in Traffic a voice NID (VoiceHeader, VoiceLCFrameGroup, VoiceCCFrameGroup)
\* returns None and leaves Traffic(_, false) with the watchdog at zero; in Traffic
\* handle_elapsed returns ReturnControl exactly when the samples fed since the
\* most recent restart (voice NID or entry) reach watchdog_time.
C5_VoiceRestartsWatchdog ==
    /\ (IsNid /\ call.arg \in VoiceUnits /\ pre.state.kind = "Traffic")
           => (ret = None /\ state = Traffic(TimerNew(watchdog_time), FALSE))
    /\ (IsElapsed /\ pre.state.kind = "Traffic")
           => /\ state.kind = "Traffic" /\ state.init = pre.state.init
              /\ (ret = "ReturnControl") <=> (pre.since + call.arg >= watchdog_time)

\* voice NID, elapsed(19) -> None, voice NID: the 19 samples are discarded.
C5_Witness ==
    /\ IsNid /\ call.arg \in VoiceUnits
    /\ pre.state.kind = "Traffic" /\ ~pre.state.init
    /\ pre.since = 19 /\ state.timer.cur = 0

\* C6: in Traffic(_, false) a terminator NID moves to Paused with a fresh timer
\* of pause_time and returns None; while Paused a terminator returns None and
\* changes nothing, and handle_elapsed returns ReturnControl exactly when the
\* samples fed since Paused was entered reach pause_time.
C6_PauseAfterTerminator ==
    /\ (IsNid /\ call.arg \in TermUnits /\ pre.state.kind = "Traffic" /\ ~pre.state.init)
           => (ret = None /\ state = Paused(TimerNew(pause_time)))
    /\ (IsNid /\ call.arg \in TermUnits /\ pre.state.kind = "Paused")
           => (ret = None /\ state = pre.state)
    /\ (IsElapsed /\ pre.state.kind = "Paused")
           => /\ state.kind = "Paused"
              /\ ret \in {None, "ReturnControl"}
              /\ (ret = "ReturnControl") <=> (pre.since + call.arg >= pause_time)

\* paused, elapsed(5), terminator, elapsed(24) -> None, terminator -> None.
C6_Witness ==
    /\ IsNid /\ call.arg \in TermUnits /\ pre.state.kind = "Paused"
    /\ pre.since = 29 /\ state.timer.cur = 29 /\ ret = None

\* C7: while Paused a voice NID returns None and puts the policy in
\* Traffic(_, true) with a watchdog of watchdog_time at zero, whatever pause time
\* had elapsed.
C7_ResumeFromPause ==
    (IsNid /\ call.arg \in VoiceUnits /\ pre.state.kind = "Paused")
        => (ret = None /\ state = Traffic(TimerNew(watchdog_time), TRUE))

\* paused, elapsed(29) -> None, nid(VoiceHeader) -> None.
C7_Witness ==
    /\ IsNid /\ call.arg = "VoiceHeader" /\ pre.state.kind = "Paused"
    /\ pre.since = 29 /\ state.kind = "Traffic"

\* C8: handle_call_term returns ReturnControl in Traffic (either flag) and in
\* Paused, whatever the timer, and leaves the state as it was.
C8_CallTermReturnsControl ==
    (IsCallTerm /\ pre.state.kind \in {"Traffic", "Paused"})
        => (ret = "ReturnControl" /\ state = pre.state)

C8_Witness ==
    /\ IsCallTerm /\ pre.state.kind = "Paused" /\ pre.since > 0
    /\ ret = "ReturnControl"

\* C9: in Control, handle_nid (any data unit) and handle_call_term return None
\* and leave the state, with the select timer's count, unchanged.
C9_ControlIgnoresNidAndTerm ==
    ((IsNid \/ IsCallTerm) /\ pre.state.kind = "Control")
        => (ret = None /\ state = pre.state /\ state.timer.cur = pre.since)

C9_Witness ==
    /\ IsNid /\ call.arg \in VoiceUnits /\ pre.state.kind = "Control"
    /\ pre.since = 9 /\ state.timer.cur = 9

----------------------------------------------------------------------------
(* Properties of TalkgroupSelection, checked under SpecSel.                *)

\* C10: add_talkgroup(tg, f) of a talkgroup that is in the encrypted set leaves
\* the candidate list, the preempt-candidate list, the channel map and the age
\* map (and the rest of the selector) as they were.
C10_EncryptedAddIsNoOp ==
    [][ (tsCall'.op = "add_talkgroup" /\ tsCall'.tg \in DOMAIN ts.encrypted)
            => /\ ts'.cur = ts.cur
               /\ ts'.cur_preempt = ts.cur_preempt
               /\ ts'.channels = ts.channels
               /\ ts'.feats.age = ts.feats.age
               /\ ts' = ts ]_vars

\* add_talkgroup of an encrypted talkgroup that the filter admits, that is a
\* preempt talkgroup and not yet a candidate, after the counter has advanced:
\* without the encrypted check every one of the four collections would change.
C10_Witness ==
    /\ tsCall.op = "add_talkgroup"
    /\ tsCall.tg \in DOMAIN ts.encrypted
    /\ ~FilterExcluded(ts.filter, tsCall.tg)
    /\ tsCall.tg \in ts.preempt
    /\ tsCall.tg \notin DOMAIN ts.channels
    /\ ts.cur # << >>
    /\ ts.feats.elapsed > 0

IsSelect(c) == c.op \in {"select_idle", "select_preempt"}

Elems(seq) == {seq[i] : i \in 1..Len(seq)}

\* C11: once record_encrypted(tg, _) has been called, neither select_idle nor
\* select_preempt returns tg until clear_state(): a successful selection never
\* returns a talkgroup that is in the encrypted set.
C11_EncryptedNeverSelected ==
    (IsSelect(tsCall) /\ tsRet # NoneOpt) => tsRet[1][1] \notin DOMAIN ts.encrypted

\* C12: a successful select_idle or select_preempt returns (tg, freq) with freq
\* the frequency recorded for tg, and leaves the candidate list, the
\* preempt-candidate list, the channel map and the age map empty, recent = tg
\* and the counter at 0; a select issued right after it returns None and leaves
\* the selector (recent included) unchanged.
C12_SelectReturnsAndClears ==
    [][ /\ (IsSelect(tsCall') /\ tsRet' # NoneOpt) =>
              LET tg == tsRet'[1][1]
                  freq == tsRet'[1][2]
              IN  /\ tg \in DOMAIN ts.channels
                  /\ freq = ts.channels[tg]
                  /\ ts'.cur = << >>
                  /\ ts'.cur_preempt = << >>
                  /\ ts'.channels = EmptyMap
                  /\ ts'.feats.age = EmptyMap
                  /\ ts'.feats.recent = tg
                  /\ ts'.feats.elapsed = 0
        /\ (IsSelect(tsCall') /\ IsSelect(tsCall) /\ tsRet # NoneOpt) =>
              (tsRet' = NoneOpt /\ ts' = ts /\ ts'.feats.recent = tsRet[1][1]) ]_vars

\* A selection returned talkgroup 2 on frequency 2, the frequency announced
\* for it, and left the selector empty with recent = 2 and the counter at 0.
C12_Witness ==
    /\ IsSelect(tsCall) /\ tsRet = Some(<<2, 2>>)
    /\ ts.feats.recent = 2 /\ ts.feats.elapsed = 0
    /\ ts.cur = << >> /\ ts.channels = EmptyMap

\* C13: the preempt-candidate list is the sub-list of the candidate list whose
\* ids are in the preempt set; select_preempt returns only a talkgroup of the
\* preempt set that is a current candidate; when there is none it returns None
\* and changes nothing, so that a select_idle that follows still returns a
\* pending candidate; after a successful select_preempt, select_idle returns None.
C13_PreemptOnlyFromPreemptSet ==
    [][ /\ ts'.cur_preempt = SelectSeq(ts'.cur, LAMBDA x : x \in ts'.preempt)
        /\ (tsCall'.op = "select_preempt" /\ tsRet' # NoneOpt) =>
              (tsRet'[1][1] \in ts.preempt /\ tsRet'[1][1] \in Elems(ts.cur))
        /\ (tsCall'.op = "select_preempt" /\ tsRet' = NoneOpt) =>
              (ts' = ts /\ Elems(ts.cur) \cap ts.preempt = {})
        /\ (tsCall'.op = "select_idle" /\ tsCall.op = "select_preempt"
                /\ tsRet = NoneOpt /\ ts.cur # << >>) =>
              (tsRet' # NoneOpt /\ tsRet'[1][1] \in Elems(ts.cur))
        /\ (tsCall'.op = "select_idle" /\ tsCall.op = "select_preempt"
                /\ tsRet # NoneOpt) =>
              tsRet' = NoneOpt ]_vars

\* select_preempt returned the preempt talkgroup although another candidate had
\* been collected as well (test_selection: add(10), add(20), select_preempt()).
C13_Witness ==
    /\ tsCall.op = "select_preempt" /\ tsRet # NoneOpt
    /\ tsRet[1][1] \in ts.preempt
    /\ ts.preempt # TGs
    /\ ts.feats.recent = tsRet[1][1]

----------------------------------------------------------------------------
(* Properties of the scoring, checked under SpecScore.  tsPre holds the    *)
(* selector a selection was made on, tsRet what the selection returned.    *)

Selecting == tsPre # NoneOpt

\* The list the last selection chose from.
SelectedFrom ==
    IF tsCall.op = "select_idle" THEN tsPre[1].cur ELSE tsPre[1].cur_preempt

Chosen == tsRet[1][1]

\* p(tg): the user priority, 1.0 when none is set.
UserPrio(f, tg) == IF tg \in DOMAIN f.prios THEN f.prios[tg] ELSE 1

\* Samples a candidate has waited since it was (last) added.
Waited(f, tg) == f.elapsed - f.age[tg]

\* The longest wait over the collected candidates.
LongestWait(f) ==
    IF DOMAIN f.age = {} THEN 0
    ELSE LET waits == {Waited(f, k) : k \in DOMAIN f.age}
         IN  CHOOSE m \in waits : \A x \in waits : m >= x

\* w_prio*p(tg) + w_age*(1 - waited/longest) + w_recent*[tg = recent], times the
\* longest wait when that is not zero; the age term is 1 when nobody waited.
ClaimScore(f, tg) ==
    LET o == LongestWait(f)
        r == IF tg = f.recent THEN 1 ELSE 0
    IN  IF o = 0
        THEN f.weights.prio * UserPrio(f, tg) + f.weights.age + f.weights.recent * r
        ELSE f.weights.prio * UserPrio(f, tg) * o
             + f.weights.age * (o - Waited(f, tg))
             + f.weights.recent * r * o

SameStamp(f) == \A c, d \in DOMAIN f.age : f.age[c] = f.age[d]

\* Same priority, and neither is the recent winner.
SameOtherFeatures(f, c, d) ==
    UserPrio(f, c) = UserPrio(f, d) /\ c # f.recent /\ d # f.recent

Idx(seq, x) == CHOOSE i \in 1..Len(seq) : seq[i] = x

\* C14 as stated: the selection returns a candidate of maximal score over the
\* list it chooses from (None iff the list is empty), and with default weights
\* and all candidates added at the same counter value a candidate whose user
\* priority is strictly larger than every other's is the one selected.
C14_MaxScoreAndPriority ==
    Selecting =>
        LET f == tsPre[1].feats
            L == Elems(SelectedFrom)
        IN  /\ (tsRet = NoneOpt) <=> (L = {})
            /\ tsRet # NoneOpt =>
                 /\ Chosen \in L
                 /\ \A c \in L : ClaimScore(f, Chosen) >= ClaimScore(f, c)
                 /\ (f.weights = DefaultWeights /\ SameStamp(f)) =>
                       \A c \in L :
                           (\A d \in L \ {c} : UserPrio(f, c) > UserPrio(f, d))
                               => Chosen = c

\* C14, amended: the same, with the strictly larger priority deciding only
\* when none of the other candidates is the recent winner.
C14_MaxScoreAndPriorityNoRecent ==
    Selecting =>
        LET f == tsPre[1].feats
            L == Elems(SelectedFrom)
        IN  /\ (tsRet = NoneOpt) <=> (L = {})
            /\ tsRet # NoneOpt =>
                 /\ Chosen \in L
                 /\ \A c \in L : ClaimScore(f, Chosen) >= ClaimScore(f, c)
                 /\ (f.weights = DefaultWeights /\ SameStamp(f)) =>
                       \A c \in L :
                           (\A d \in L \ {c} :
                                UserPrio(f, c) > UserPrio(f, d) /\ d # f.recent)
                               => Chosen = c

\* The talkgroup with the user priority was selected although it was not the
\* last of several candidates added at the same counter value.
C14_Witness ==
    /\ Selecting /\ tsRet # NoneOpt
    /\ tsPre[1].feats.weights = DefaultWeights /\ SameStamp(tsPre[1].feats)
    /\ Len(SelectedFrom) >= 2
    /\ tsPre[1].feats.recent \notin Elems(SelectedFrom)
    /\ UserPrio(tsPre[1].feats, Chosen) > 1
    /\ SelectedFrom[Len(SelectedFrom)] # Chosen

\* C15 as stated: with w_age > 0 and all other features equal, the older
\* candidate is selected over the younger one: the selected candidate was not
\* added later than a candidate with the same priority when neither is the
\* recent winner.
C15_OldestWins ==
    (Selecting /\ tsRet # NoneOpt /\ tsPre[1].feats.weights.age > 0) =>
        LET f == tsPre[1].feats
        IN  \A c \in Elems(SelectedFrom) :
                SameOtherFeatures(f, c, Chosen) => ~(f.age[c] < f.age[Chosen])

\* C15, amended: with w_age > 0 and all other features equal, the younger
\* candidate is selected over the older one: the selected candidate was not
\* added earlier than a candidate with the same priority when neither is the
\* recent winner.
C15_YoungestWins ==
    (Selecting /\ tsRet # NoneOpt /\ tsPre[1].feats.weights.age > 0) =>
        LET f == tsPre[1].feats
        IN  \A c \in Elems(SelectedFrom) :
                SameOtherFeatures(f, c, Chosen) => ~(f.age[c] > f.age[Chosen])

\* A candidate was selected over one that had been added earlier, with the
\* same priority and neither the recent winner.
C15_Witness ==
    /\ Selecting /\ tsRet # NoneOpt /\ tsPre[1].feats.weights.age > 0
    /\ \E c \in Elems(SelectedFrom) :
           /\ SameOtherFeatures(tsPre[1].feats, c, Chosen)
           /\ tsPre[1].feats.age[c] < tsPre[1].feats.age[Chosen]

\* C16: with prio and recent weights 1, equal priorities and no candidate the
\* recent winner, oldest() is the counter minus the smallest add-stamp, and
\* select_idle returns a candidate with the largest add-stamp when the age
\* weight is 1 and one with the smallest add-stamp when the age weight is -1.
C16_AgeSelection ==
    (/\ Selecting /\ tsCall.op = "select_idle" /\ tsRet # NoneOpt
     /\ tsPre[1].feats.weights.prio = 1 /\ tsPre[1].feats.weights.recent = 1
     /\ tsPre[1].feats.recent \notin Elems(SelectedFrom)
     /\ \A c, d \in Elems(SelectedFrom) :
            UserPrio(tsPre[1].feats, c) = UserPrio(tsPre[1].feats, d)) =>
        LET f == tsPre[1].feats
            stamps == {f.age[c] : c \in Elems(SelectedFrom)}
        IN  /\ \E m \in stamps :
                   (\A x \in stamps : m <= x) /\ Oldest(f) = f.elapsed - m
            /\ f.weights.age = 1 => \A c \in Elems(SelectedFrom) : f.age[c] <= f.age[Chosen]
            /\ f.weights.age = -1 => \A c \in Elems(SelectedFrom) : f.age[c] >= f.age[Chosen]

\* test_age with the default weights: three talkgroups added at counter 0, 1
\* and 2, the selection made at counter 3 returns the one added last.
C16_Witness ==
    /\ Selecting /\ tsCall.op = "select_idle"
    /\ tsPre[1].feats.weights = DefaultWeights
    /\ tsPre[1].feats.recent = 0
    /\ tsPre[1].cur = <<1, 2, 3>>
    /\ tsPre[1].feats.age = <<0, 1, 2>>
    /\ tsPre[1].feats.elapsed = 3
    /\ tsRet = Some(<<3, 1>>)

\* C17 as stated: when several candidates have the maximal score, the one
\* inserted into the list first is returned.
C17_TieFirstInserted ==
    (Selecting /\ tsRet # NoneOpt) =>
        \A i \in 1..Len(SelectedFrom) :
            ClaimScore(tsPre[1].feats, SelectedFrom[i]) = ClaimScore(tsPre[1].feats, Chosen)
                => Idx(SelectedFrom, Chosen) <= i

\* C17, amended: when several candidates have the maximal score, the one
\* inserted into the list last is returned.
C17_TieLastInserted ==
    (Selecting /\ tsRet # NoneOpt) =>
        \A i \in 1..Len(SelectedFrom) :
            ClaimScore(tsPre[1].feats, SelectedFrom[i]) = ClaimScore(tsPre[1].feats, Chosen)
                => Idx(SelectedFrom, Chosen) >= i

\* Three candidates with the same score: the third one inserted was returned.
C17_Witness ==
    /\ Selecting /\ tsRet # NoneOpt
    /\ Len(SelectedFrom) = 3
    /\ \A i \in 1..3 :
           ClaimScore(tsPre[1].feats, SelectedFrom[i]) = ClaimScore(tsPre[1].feats, Chosen)
    /\ Chosen = SelectedFrom[3]

----------------------------------------------------------------------------
(* Further properties of TalkgroupSelection, checked under SpecSel.        *)

\* C18: clear_state() empties the candidate list, the preempt-candidate list,
\* the channel map, the age map and the encrypted set, sets recent and the
\* counter to 0 and leaves filter, preempt set, priorities and weights alone;
\* a talkgroup the filter admits that is added right after it becomes the one
\* candidate, and a select_idle right after the addition of a lone candidate,
\* with nothing marked encrypted, returns it.
C18_ClearState ==
    [][ /\ tsCall'.op = "clear_state" =>
              /\ ts'.cur = << >> /\ ts'.cur_preempt = << >>
              /\ ts'.channels = EmptyMap /\ ts'.feats.age = EmptyMap
              /\ ts'.encrypted = EmptyMap
              /\ ts'.feats.recent = 0 /\ ts'.feats.elapsed = 0
              /\ ts'.filter = ts.filter /\ ts'.preempt = ts.preempt
              /\ ts'.feats.prios = ts.feats.prios
              /\ ts'.feats.weights = ts.feats.weights
        /\ (tsCall.op = "clear_state" /\ tsCall'.op = "add_talkgroup"
                /\ ~FilterExcluded(ts.filter, tsCall'.tg)) =>
              (ts'.cur = <<tsCall'.tg>> /\ ts'.channels = (tsCall'.tg :> tsCall'.freq))
        /\ (tsCall.op = "add_talkgroup" /\ ts.cur = <<tsCall.tg>>
                /\ ts.encrypted = EmptyMap /\ tsCall'.op = "select_idle") =>
              tsRet' = Some(<<tsCall.tg, tsCall.freq>>) ]_vars

\* clear_state() was called on a selector with a preempt set, an include list
\* and a priority, and left them in place.
C18_Witness ==
    /\ tsCall.op = "clear_state"
    /\ ts.encrypted = EmptyMap /\ ts.cur = << >> /\ ts.feats.recent = 0
    /\ ts.preempt = {1} /\ ts.filter = [exclude |-> FALSE, filt |-> {1, 2}]
    /\ ts.feats.prios = (2 :> 3)

\* The filter rule: in exclude mode the members of the filter set are
\* excluded, in include mode the non-members.
ClaimExcluded(f, tg) == IF f.exclude THEN tg \in f.filt ELSE tg \notin f.filt

\* C19: the default filter excludes nothing; Filter::excluded follows the
\* exclude/include rule; add_talkgroup of an excluded talkgroup changes
\* nothing; no excluded talkgroup is a candidate or is returned by a selection.
C19_UserFilter ==
    [][ /\ \A tg \in TGs : ~FilterExcluded(DefaultFilter, tg)
        /\ \A tg \in TGs : FilterExcluded(ts.filter, tg) <=> ClaimExcluded(ts.filter, tg)
        /\ (tsCall'.op = "add_talkgroup" /\ ClaimExcluded(ts.filter, tsCall'.tg)) =>
              ts' = ts
        /\ \A tg \in Elems(ts'.cur) \cup Elems(ts'.cur_preempt) \cup DOMAIN ts'.channels :
              ~ClaimExcluded(ts'.filter, tg)
        /\ (IsSelect(tsCall') /\ tsRet' # NoneOpt) =>
              ~ClaimExcluded(ts.filter, tsRet'[1][1]) ]_vars

\* With an include list, a talkgroup outside it was offered while another
\* candidate was pending, and was not collected.
C19_Witness ==
    /\ tsCall.op = "add_talkgroup"
    /\ ~ts.filter.exclude
    /\ ClaimExcluded(ts.filter, tsCall.tg)
    /\ ts.cur # << >>
    /\ tsCall.tg \notin Elems(ts.cur)

----------------------------------------------------------------------------
(* Properties of the buffer pools, checked under SpecPool.                 *)

\* C20: for both pools, the handles in flight (held by a task or queued) never
\* exceed the capacity; a checkout returned None exactly when all 16 buffers
\* were in flight; a checkout that follows a drop returned Some; the task whose
\* checkout returned None has ended.
C20_PoolBounded ==
    \A name \in PoolNames :
        /\ InFlight(name) <= PoolCapacity
        /\ InFlight(name) = pool[name].capacity - pool[name].free
        /\ poolLog[name].op = "checkout" =>
              /\ (poolLog[name].ret = "None") <=> (poolLog[name].before = PoolCapacity)
              /\ poolLog[name].prev = "drop" => poolLog[name].ret = "Some"
              /\ poolLog[name].ret = "None" => task[poolLog[name].by] = "dead"

\* The reader found all 16 byte buffers queued or held by the demodulator:
\* its checkout returned None and the reader ended.
C20_Witness ==
    /\ poolLog.samples.op = "checkout" /\ poolLog.samples.ret = "None"
    /\ poolLog.samples.before = PoolCapacity
    /\ task.reader = "dead"
    /\ InFlight("samples") = PoolCapacity

----------------------------------------------------------------------------
(* Properties of the hub, checked under SpecHub.                           *)

\* The step is the hub handling the request hubCall'.req.
RequestStep == hubCall'.op = "request" /\ recv_open' = recv_open

\* The step is the hub handling the event hubCall'.ev.
EventStep == hubCall'.op = "event" /\ recv_open' = recv_open

Is(req, method, path) == req.ver = "1.1" /\ req.method = method /\ req.path = path

C22_FailedSubscribersDropped ==
    [][ EventStep =>
            LET before == Elems(hub.streamers)
                failed == hubCall'.dead
            IN  /\ failed \subseteq before
                /\ Elems(hub'.streamers) = before \ failed
                /\ Len(hub'.streamers) = Cardinality(before \ failed)
                /\ Writes(hubCall'.ev) => hubOut'.wrote = before \ failed
                /\ hub'.alive
      ]_vars

\* An event was written to subscribers of which one failed and two stayed.
C22_Witness ==
    /\ hubCall.op = "event"
    /\ Cardinality(hubCall.dead) = 1
    /\ Len(hub.streamers) = 2
    /\ hubOut.wrote = Elems(hub.streamers)
    /\ hub.alive

\* C23: every request whose version is not HTTP/1.1 is answered 501, whatever
\* its method and path, and changes neither the hub nor the receiver.
C23_OtherVersionsRejected ==
    [][ (RequestStep /\ hubCall'.req.ver # "1.1") =>
            /\ hubOut'.resp.status = 501
            /\ hub' = hub
            /\ hubOut'.sent = << >>
      ]_vars

\* C24: an HTTP/1.1 OPTIONS request to any path is answered 200 with the two
\* preflight headers.
C24_OptionsAnyPath ==
    (hubCall.op = "request" /\ hubCall.req.ver = "1.1" /\ hubCall.req.method = "OPTIONS") =>
        /\ hubOut.resp.status = 200
        /\ "Access-Control-Allow-Methods: GET, PUT" \in hubOut.resp.headers
        /\ "Access-Control-Allow-Headers: Content-Type" \in hubOut.resp.headers

\* C25: a PUT /stats/reset the hub survives sent exactly one ResetStats to the
\* receiver and was answered 200.
C25_ResetStatsAnswered ==
    (hubCall.op = "request" /\ Is(hubCall.req, "PUT", "/stats/reset") /\ hub.alive) =>
        /\ hubOut.sent = <<Ev("ResetStats", "", 0)>>
        /\ hubOut.resp.status = 200

\* C26: PUT /ctlfreq with the JSON of a frequency f sends exactly one
\* SetControlFreq(f) to the receiver and answers 200, or sends nothing and
\* answers 500 when the receiver's end of the channel is gone, and leaves the
\* hub as it was.  The hub's state changes only in the handling of a state
\* event.  GET /ctlfreq answers with the frequency of the last UpdateCtlFreq
\* handled, u32::MAX before the first.
C26_PutCtlFreqForwardsOnly ==
    [][ /\ (RequestStep /\ Is(hubCall'.req, "PUT", "/ctlfreq") /\ hubCall'.req.body # NoneOpt) =>
              /\ hub' = hub
              /\ recv_open =>
                    /\ hubOut'.sent = <<Ev("SetControlFreq", "", hubCall'.req.body[1])>>
                    /\ hubOut'.resp.status = 200
              /\ ~recv_open =>
                    /\ hubOut'.sent = << >>
                    /\ hubOut'.resp.status = 500
        /\ hub'.state # hub.state =>
              /\ EventStep
              /\ hubCall'.ev.kind \in {"State.UpdateCtlFreq", "State.UpdateEncrypted",
                                       "State.UpdateChannelParams"}
        /\ (RequestStep /\ Is(hubCall'.req, "GET", "/ctlfreq")) =>
              /\ hubOut'.resp.status = 200
              /\ hubOut'.resp.body = Some([ctlfreq |-> hubCall.lastCtl])
              /\ hubCall.lastCtl = U32Max <=>
                    (hubCall.op = "new" \/ hub.state.ctlfreq = U32Max)
      ]_vars

\* Frequency 2 was PUT and forwarded while the hub still holds the frequency 1
\* of the last UpdateCtlFreq.
C26_Witness ==
    /\ hubCall.op = "request" /\ Is(hubCall.req, "PUT", "/ctlfreq")
    /\ hubCall.req.body = Some(2)
    /\ hubOut.sent = <<Ev("SetControlFreq", "", 2)>>
    /\ hubOut.resp.status = 200
    /\ hub.state.ctlfreq = 1
    /\ hubCall.lastCtl = 1

----------------------------------------------------------------------------
(* Properties of the hub channel, checked under SpecChan.                  *)

\* The step is the hub taking an event from its channel.
HandleChanStep == Len(hub_chan') < Len(hub_chan)

\* C27: the hub handles the events of its channel in the order they were
\* sent, whoever sent them: the event it takes is the one sent before every
\* other event waiting, it follows the event handled before it, and it is
\* written to every subscriber whose write succeeds after everything written
\* to that subscriber before.  So a TrunkingControl is handled only when no
\* UpdateCurFreq sent before it is still waiting, with or without
\* UpdateSignalPower events of the demodulator in between.
C27_HubChannelOrder ==
    [][ /\ \A i, j \in 1..Len(hub_chan') : i < j => hub_chan'[i].n < hub_chan'[j].n
        /\ HandleChanStep =>
              LET first == CHOOSE m \in Elems(hub_chan) :
                               \A o \in Elems(hub_chan) : m.n <= o.n
                  written == Elems(hub.streamers) \ hubCall'.dead
              IN  /\ hubCall'.op = "event" /\ hubCall'.ev = first.ev
                  /\ chanHist'.handled = first.n
                  /\ chanHist.handled < first.n
                  /\ Elems(hub_chan') = Elems(hub_chan) \ {first}
                  /\ hubOut'.wrote = written
                  /\ \A c \in written :
                        chanHist.written[c] < first.n /\ chanHist'.written[c] = first.n
                  /\ first.ev.kind = "TrunkingControl" =>
                        \A o \in Elems(hub_chan) :
                            (o.from = "recv" /\ o.ev.kind = "UpdateCurFreq") => first.n < o.n
      ]_vars

\* The receiver sent UpdateCurFreq, the demodulator UpdateSignalPower, the
\* receiver TrunkingControl: the hub handled the three in that order and wrote
\* the last to both subscribers.
C27_Witness ==
    /\ chanHist.sent = 3 /\ chanHist.rsent = 2 /\ chanHist.powers = 1
    /\ chanHist.curFreqAt = 1
    /\ chanHist.prevHandled = 2 /\ chanHist.handled = 3
    /\ hubCall.op = "event" /\ hubCall.ev.kind = "TrunkingControl"
    /\ Len(hub.streamers) = 2
    /\ \A c \in Elems(hub.streamers) : chanHist.written[c] = 3

\* C28: two UpdateSignalPower events of the demodulator are at least 16 blocks
\* apart, so that no 16 consecutive blocks see more than one; after b blocks
\* at most one event per started run of 16 blocks has been sent; and a
\* Baseband has been sent for every block, the block in which the task ended
\* excepted.
C28_PowerThrottled ==
    /\ chanHist.prevPowerAt # 0 => chanHist.lastPowerAt - chanHist.prevPowerAt >= 16
    /\ chanHist.powers <= (chanHist.blocks + 15) \div 16
    /\ chanHist.demod = "run" => chanHist.basebands = chanHist.blocks
    /\ chanHist.demod # "run" => chanHist.basebands = chanHist.blocks - 1

\* Thirty-two blocks gave thirty-two Baseband events and two power events,
\* sixteen blocks apart.
C28_Witness ==
    /\ chanHist.blocks = 32 /\ chanHist.basebands = 32
    /\ chanHist.powers = 2
    /\ chanHist.lastPowerAt - chanHist.prevPowerAt = 16

----------------------------------------------------------------------------
(* Properties of the receiver's reactions, checked under SpecRecv.         *)

----------------------------------------------------------------------------
(* Properties of HubToken, checked under SpecTok.                          *)

\* C35: Conns, Events and Request(fd) with 0 <= fd < 2^24 come back unchanged
\* from the conversion to a Token and back; the three tags are pairwise
\* distinct and share no bit with the 24 bits of the file descriptor, so the
\* token of a request is never read back as Conns or Events; for_request
\* refuses (by its assertion) exactly the file descriptors that do not fit in
\* 24 bits.
C35_TokenRoundTrip ==
    /\ CONNS # EVENTS /\ CONNS # REQUEST /\ EVENTS # REQUEST
    /\ (CONNS \cup EVENTS \cup REQUEST) \cap (0..23) = {}
    /\ tok.op = "for_request" =>
           /\ tok.ht[1] = Panicked <=> ~(tok.arg \subseteq 0..23)
           /\ tok.ht[1] # Panicked => tok.ht[1] = Request(tok.arg)
    /\ tok.out # NoneOpt =>
           /\ tok.out = tok.ht
           /\ tok.op = "for_request" => tok.out[1] = Request(tok.arg)

C35_Witness ==
    /\ tok.op = "for_request"
    /\ tok.arg = {0, 1, 23}
    /\ tok.token = Some({0, 1, 23, 29})
    /\ tok.out = Some(Request({0, 1, 23}))

----------------------------------------------------------------------------
(* Properties of ReplayReceiver, checked under SpecReplay.                 *)

\* C39 as stated: the decoder is fed exactly the bytes read from the stream,
\* each once and in order (a short read contributing only the bytes it
\* returned), and the replay ends at the first read that returns 0.
C39_ReplayFeedsWhatWasRead ==
    /\ BytesOf(rp.fed) = rp.read
    /\ rp.status = "done" => rp.stream = << >> /\ rp.last = 0

----------------------------------------------------------------------------
(* Further properties of TalkgroupSelection.                               *)

NoRepeat(seq) == \A i, j \in 1..Len(seq) : seq[i] = seq[j] => i = j

Readd == tsCall'.op = "add_talkgroup" /\ tsCall'.tg \in DOMAIN ts.channels

C36_CandidateMapsAgree ==
    /\ Elems(ts.cur) = DOMAIN ts.channels
    /\ Elems(ts.cur) = DOMAIN ts.feats.age
    /\ \E keep \in SUBSET Elems(ts.cur) :
           ts.cur_preempt = SelectSeq(ts.cur, LAMBDA x : x \in keep)

\* Two candidates, one of them a preempt candidate, with their channels and
\* age stamps.
C36_Witness ==
    /\ Len(ts.cur) = 2 /\ Len(ts.cur_preempt) = 1
    /\ DOMAIN ts.channels = Elems(ts.cur)
    /\ DOMAIN ts.feats.age = Elems(ts.cur)

\* The part of the score that does not depend on the age.
PrioAndRecent(f, tg) ==
    f.weights.prio * UserPrio(f, tg) + f.weights.recent * (IF tg = f.recent THEN 1 ELSE 0)

\* A selection among candidates that were all added at the current counter.
SelectingAtZeroAge ==
    Selecting /\ tsRet # NoneOpt /\ Oldest(tsPre[1].feats) = 0

\* C33 as stated: when oldest_age is 0 the age term of every candidate is 0,
\* nothing is divided, and the selected candidate is one with the largest sum
\* of the priority and recent-winner terms.
C33_ZeroAgeTermIsZero ==
    SelectingAtZeroAge =>
        LET f == tsPre[1].feats
        IN  /\ AgeMul(f) = <<0, 1>>
            /\ \A c \in Elems(SelectedFrom) :
                   /\ f.age[c] = f.elapsed
                   /\ AgeTerm(f, c)[1] = 0
                   /\ PrioAndRecent(f, Chosen) >= PrioAndRecent(f, c)

\* C33, amended: when oldest_age is 0 the multiplier is 0 (no reciprocal is
\* taken), so the age term of every candidate is 1, the same for all, and the
\* selected candidate is one with the largest sum of the priority and
\* recent-winner terms.
C33_ZeroAgeTermIsOne ==
    SelectingAtZeroAge =>
        LET f == tsPre[1].feats
        IN  /\ AgeMul(f) = <<0, 1>>
            /\ \A c \in Elems(SelectedFrom) :
                   /\ f.age[c] = f.elapsed
                   /\ AgeTerm(f, c) = <<1, 1>>
                   /\ Score(f, c) = PrioAndRecent(f, c) + f.weights.age
                   /\ PrioAndRecent(f, Chosen) >= PrioAndRecent(f, c)

\* Two candidates added at counter 1 and selected among at counter 1.
C33_Witness ==
    /\ SelectingAtZeroAge
    /\ tsPre[1].feats.elapsed = 1
    /\ Len(SelectedFrom) = 2

----------------------------------------------------------------------------
(* Further properties of ReceiverPolicy, checked under Spec.               *)

OffControl == {"Traffic", "Paused"}

IsPolicyInput == IsElapsed \/ IsNid \/ IsCallTerm

\* The timer has counted up to its timeout.
TimedOut(s) == s.timer.cur >= s.timer.max

\* The last call was a terminator NID that moved Traffic to Paused.
PausedByTerminator ==
    IsNid /\ call.arg \in TermUnits /\ pre.state.kind = "Traffic" /\ ~pre.state.init

\* handle_elapsed, handle_nid and handle_call_term keep the policy on its side
\* of Control / Traffic-Paused; a call that returns an event leaves the
\* variant and its flag alone; ChooseTalkgroup comes only from handle_elapsed
\* in Control, ReturnControl only from Traffic or Paused, Resync only from
\* handle_nid; a timer that timed out off Control is left timed out.
EventsKeepState ==
    /\ IsPolicyInput => (state.kind = "Control" <=> pre.state.kind = "Control")
    /\ ret # None =>
           /\ IsPolicyInput
           /\ state.kind = pre.state.kind /\ state.init = pre.state.init
           /\ IsElapsed \/ state = pre.state
    /\ ret = "ChooseTalkgroup" => IsElapsed /\ pre.state.kind = "Control"
    /\ ret = "ReturnControl" =>
           pre.state.kind \in OffControl /\ (IsElapsed \/ IsCallTerm)
    /\ ret = "Resync" => IsNid
    /\ (IsElapsed /\ ret = "ReturnControl") => TimedOut(state)

\* C37 as stated: EventsKeepState, and once the watchdog or pause timer has
\* timed out it stays timed out, every handle_elapsed returning ReturnControl,
\* through every call but enter_control(), enter_traffic() and a voice NID
\* (VoiceHeader, VoiceLCFrameGroup, VoiceCCFrameGroup).
C37_ExpiredUntilVoice ==
    /\ EventsKeepState
    /\ (/\ pre.state.kind \in OffControl /\ TimedOut(pre.state)
        /\ IsPolicyInput /\ ~(IsNid /\ call.arg \in VoiceUnits)) =>
           /\ state.kind \in OffControl /\ TimedOut(state)
           /\ IsElapsed => ret = "ReturnControl"

\* C37, amended: the same, through every call but enter_control(),
\* enter_traffic(), a voice NID and a terminator NID received in
\* Traffic(_, false), which moves to Paused with a new pause timer.
C37_ExpiredUntilVoiceOrPause ==
    /\ EventsKeepState
    /\ (/\ pre.state.kind \in OffControl /\ TimedOut(pre.state)
        /\ IsPolicyInput /\ ~(IsNid /\ call.arg \in VoiceUnits)
        /\ ~PausedByTerminator) =>
           /\ state.kind \in OffControl /\ TimedOut(state)
           /\ IsElapsed => ret = "ReturnControl"
    /\ (PausedByTerminator /\ TimedOut(pre.state)) =>
           (state = Paused(TimerNew(pause_time)) /\ ret = None)

\* The pause timer had timed out and the next block returned ReturnControl
\* once more.
C37_Witness ==
    /\ IsElapsed /\ ret = "ReturnControl"
    /\ pre.state.kind = "Paused" /\ TimedOut(pre.state)
    /\ state.timer.cur > pause_time

LongestTimeout == IF watchdog_time > pause_time THEN watchdog_time ELSE pause_time

\* The next call is handle_elapsed, made off Control.
NextElapsedOffControl == call'.op = "handle_elapsed" /\ state.kind \in OffControl

\* C40 as stated, for finite runs: off Control, no more than
\* max(WATCHDOG, PAUSE) samples have been fed since the policy was entered,
\* the last voice NID (VoiceHeader, VoiceLCFrameGroup, VoiceCCFrameGroup) or
\* the last returned event; so the block that returns ReturnControl comes
\* after at most that many samples.
C40_ReturnWithinLongest ==
    state.kind \in OffControl => fedSince <= LongestTimeout

\* A voice NID arrived or the receiver entered a state, as the last call.
TimerRestarted ==
    \/ IsNid /\ call.arg \in VoiceUnits
    \/ call.op \in {"enter_traffic", "enter_control"}

\* The timer is at the end of the range of the model.
RangeEnd == state.timer.cur >= MaxCur

\* C40, amended: off Control, while blocks of positive length keep being fed
\* and no voice NID arrives, ReturnControl is eventually returned: by the
\* block that brings the samples fed since the timer was started (by
\* enter_traffic(), a voice NID, or the terminator NID that moved Traffic to
\* Paused) to its timeout, so after fewer than max(WATCHDOG, PAUSE) samples
\* from then, and fewer than WATCHDOG + PAUSE samples after the last voice
\* NID or event.  The timers move only in handle_elapsed, and a timeout event
\* is returned only by handle_elapsed.
C40_ReturnToControl ==
    /\ (state.kind \in OffControl) ~>
           (ret = "ReturnControl" \/ TimerRestarted \/ RangeEnd)
    /\ [](state.kind \in OffControl => fedSince < watchdog_time + pause_time)
    /\ [][ NextElapsedOffControl =>
              /\ state.timer.max <= LongestTimeout
              /\ ret' = "ReturnControl" <=> since + call'.arg >= state.timer.max ]_vars
    /\ [][ /\ (state'.kind = state.kind /\ state'.timer.cur > state.timer.cur) =>
                 (call'.op = "handle_elapsed" /\ call'.arg > 0)
           /\ (ret' = "ChooseTalkgroup" /\ <<state, ret, call>>' # <<state, ret, call>>) =>
                 call'.op = "handle_elapsed"
           /\ (ret' = "ReturnControl" /\ call'.op # "handle_call_term"
                   /\ <<state, ret, call>>' # <<state, ret, call>>) =>
                 call'.op = "handle_elapsed" ]_vars

\* Paused after 19 samples in Traffic, and ReturnControl returned by the block
\* that completed the 30 samples of the pause timer.
C40_Witness ==
    /\ IsElapsed /\ ret = "ReturnControl"
    /\ pre.state.kind = "Paused"
    /\ pre.since < pause_time /\ pre.since + call.arg = pause_time
    /\ pre.state.timer.cur = pre.since

----------------------------------------------------------------------------
(* The age feature when the counter wraps, checked under SpecWrap.         *)

\* C34 as stated: with no candidate waiting for half the range of the counter
\* (which SpecWrap never lets happen), the counter and the stamps are taken
\* modulo the width of the counter, and the age term
\* 1 - (elapsed - stamp) / oldest_age of every candidate of a selection is
\* within [0, 1], also when the counter wrapped after a candidate was added.
C34_AgeTermInUnitRange ==
    (Selecting /\ tsRet # NoneOpt) =>
        LET f == tsPre[1].feats
        IN  \A c \in Elems(SelectedFrom) :
                /\ WrappingSub(f.elapsed, f.age[c]) < HalfRange
                /\ AgeTerm(f, c)[1] >= 0
                /\ AgeTerm(f, c)[1] <= AgeTerm(f, c)[2]

----------------------------------------------------------------------------
(* The receiver and the hub, checked under SpecSite.                       *)

\* The step is the receiver's handling of a trunking signalling block.
TsbkStep == rxOut'.input # NoneOpt /\ hub' = hub /\ Len(hub_chan') >= Len(hub_chan)

\* C31: a trunking signalling block with a non-zero manufacturer id, a CRC
\* that does not match or an unknown opcode changes nothing: no event is
\* published, the selector, the channel parameters, the frequencies and the
\* policy stay as they are; a block that passes is published as
\* TrunkingControl.  So every TrunkingControl queued for the hub or handled
\* by it has a known opcode, and the hub survives its unwrap.
C31_InvalidTsbkDropped ==
    /\ [](/\ hub.alive
          /\ \A i \in 1..Len(hub_chan) :
                 hub_chan[i].ev.kind = "TrunkingControl" => hub_chan[i].ev.op \in Opcodes
          /\ hubCall.ev.kind = "TrunkingControl" => hubCall.ev.op \in Opcodes)
    /\ [][ TsbkStep =>
              LET t == rxOut'.input[1]
              IN  /\ (t.mfg # 0 \/ ~t.crc_ok \/ t.opcode \notin Opcodes) =>
                        /\ hub_chan' = hub_chan
                        /\ ts' = ts /\ rx' = rx /\ state' = state
                  /\ (t.mfg = 0 /\ t.crc_ok /\ t.opcode \in Opcodes) =>
                        /\ Len(hub_chan') > Len(hub_chan)
                        /\ hub_chan'[Len(hub_chan) + 1].ev
                               = Ev("TrunkingControl", t.opcode, 0) ]_vars

\* With a subscriber listening and a TrunkingControl handled by the hub, a
\* block with an unknown opcode was decoded and nothing is queued.
C31_Witness ==
    /\ rxOut.input = Some(Tsbk(0, TRUE, UnknownOpcode))
    /\ hub.streamers # << >>
    /\ hubCall.ev.kind = "TrunkingControl"
    /\ hub_chan = << >>

StateEvents == {"State.UpdateCtlFreq", "State.UpdateEncrypted", "State.UpdateChannelParams"}

\* C38 as stated: when no StateEvent is left on the hub channel, the
\* encrypted talkgroups of the hub's State are those of the selector, also
\* after clear_state().
C38_EncryptedSnapshotMirrors ==
    (hub.alive /\ \A i \in 1..Len(hub_chan) : hub_chan[i].ev.kind \notin StateEvents) =>
        DOMAIN hub.state.encrypted = DOMAIN ts.encrypted

====
